---- MODULE Spec2Model ----
(***************************************************************************)
(* JSON Translator Pro (src/json_translator_pro.py).                       *)
(*                                                                         *)
(* Two specifications over one set of variables:                           *)
(*   SpecGuard  the Placeholder Guard as a pure function: a text drawn     *)
(*              from a bounded set is protected and then restored.        *)
(*   Spec       the application: the Tk UI thread (one atomic action per   *)
(*              event handler), the translation worker threads (one       *)
(*              action per step between two reads or writes of shared     *)
(*              state) and the Tk `after` queue between them.             *)
(*                                                                         *)
(* Strings are sequences of one-character strings, so that the regular    *)
(* expressions and str.replace are computed character by character.       *)
(***************************************************************************)
EXTENDS Integers, Sequences, FiniteSets, TLC

\* ------------------------------------------------------------------------
\* Characters and strings
\* ------------------------------------------------------------------------
Upper ==
    {"A","B","C","D","E","F","G","H","I","J","K","L","M",
     "N","O","P","Q","R","S","T","U","V","W","X","Y","Z"}

Lower ==
    {"a","b","c","d","e","f","g","h","i","j","k","l","m",
     "n","o","p","q","r","s","t","u","v","w","x","y","z"}

Digit ==
    {"0","1","2","3","4","5","6","7","8","9"}

\* \w of Python's re on str: letters, digits and the underscore
IsWord(c) ==
    c \in Upper \cup Lower \cup Digit \cup {"_"}

\* \s
IsSpace(c) ==
    c \in {" ", "\n", "\t"}

\* [a-zA-Z0-9_]
IsEmojiChar(c) ==
    c \in Upper \cup Lower \cup Digit \cup {"_"}

\* s[i..j] (1-based, inclusive); empty when j < i
Slice(s, i, j) ==
    SubSeq(s, i, j)

\* does `p` occur in `s` at position i
OccursAt(s, p, i) ==
    /\ i + Len(p) - 1 <= Len(s)
    /\ \A k \in 1..Len(p) : s[i + k - 1] = p[k]

\* `p` is a substring of `s`
Contains(s, p) ==
    \E i \in 1..(Len(s) - Len(p) + 1) : OccursAt(s, p, i)

RECURSIVE ReplaceFrom(_, _, _, _)
\* str.replace scanning from position i: non-overlapping, left to right
ReplaceFrom(s, old, new, i) ==
    IF i > Len(s) THEN << >>
    ELSE IF OccursAt(s, old, i)
         THEN new \o ReplaceFrom(s, old, new, i + Len(old))
         ELSE << s[i] >> \o ReplaceFrom(s, old, new, i + 1)

\* str.replace(old, new) for a non-empty `old`
StrReplace(s, old, new) ==
    ReplaceFrom(s, old, new, 1)

\* str(n) for 0 <= n < 100
DigitStr(d) ==
    CASE d = 0 -> "0" [] d = 1 -> "1" [] d = 2 -> "2" [] d = 3 -> "3"
      [] d = 4 -> "4" [] d = 5 -> "5" [] d = 6 -> "6" [] d = 7 -> "7"
      [] d = 8 -> "8" [] d = 9 -> "9"

IntStr(n) ==
    IF n < 10 THEN << DigitStr(n) >>
    ELSE << DigitStr(n \div 10), DigitStr(n % 10) >>

\* ------------------------------------------------------------------------
\* Placeholder Guard: the nine patterns, in dict order
\* ------------------------------------------------------------------------
Patterns ==
    << "curly", "square", "percent", "html", "url",
       "mention", "hashtag", "emoji_code", "caps" >>

\* least j > i with s[j] = c, or 0
NextIndexOf(s, c, i) ==
    LET js == { j \in (i + 1)..Len(s) : s[j] = c }
    IN  IF js = {} THEN 0
        ELSE CHOOSE j \in js : \A k \in js : j <= k

IsUrlChar(c) ==
    ~IsSpace(c) /\ c \notin {"\"", "'"}

\* membership of a character in a character class
InClass(cls, c) ==
    CASE cls = "word"  -> IsWord(c)
      [] cls = "emoji" -> IsEmojiChar(c)
      [] cls = "url"   -> IsUrlChar(c)
      [] cls = "upper" -> c \in Upper
      [] cls = "digit" -> c \in Digit

RECURSIVE RunLen(_, _, _)
\* number of consecutive characters from position i that are in class cls
RunLen(s, i, cls) ==
    IF i > Len(s) THEN 0
    ELSE IF ~InClass(cls, s[i]) THEN 0
    ELSE 1 + RunLen(s, i + 1, cls)

\* open [^close]+ close, starting at i: length of the match or 0
BracketLen(s, i, open, close) ==
    IF s[i] # open THEN 0
    ELSE LET j == NextIndexOf(s, close, i)
         IN  IF j >= i + 2 THEN j - i + 1 ELSE 0

\* https?://[^\s"']+ starting at i
UrlLen(s, i) ==
    LET h  == << "h", "t", "t", "p" >>
        sl == << ":", "/", "/" >>
        k  == IF OccursAt(s, h, i)
              THEN IF OccursAt(s, <<"s">> \o sl, i + 4) THEN 8
                   ELSE IF OccursAt(s, sl, i + 4) THEN 7 ELSE 0
              ELSE 0
        r  == IF k = 0 THEN 0 ELSE RunLen(s, i + k, "url")
    IN  IF k > 0 /\ r > 0 THEN k + r ELSE 0

\* \b[A-Z]{2,5}\b starting at i
CapsLen(s, i) ==
    LET r == RunLen(s, i, "upper")
    IN  IF /\ (i = 1 \/ ~IsWord(s[i - 1]))
           /\ r >= 2 /\ r <= 5
           /\ (i + r > Len(s) \/ ~IsWord(s[i + r]))
        THEN r ELSE 0

\* length of the match of pattern `label` that starts at position i, 0 if none
MatchLen(label, s, i) ==
    CASE label = "curly"   -> BracketLen(s, i, "{", "}")
      [] label = "square"  -> BracketLen(s, i, "[", "]")
      [] label = "percent" ->
            IF s[i] = "%" /\ i < Len(s) /\ IsWord(s[i + 1]) THEN 2 ELSE 0
      [] label = "html"    -> BracketLen(s, i, "<", ">")
      [] label = "url"     -> UrlLen(s, i)
      [] label = "mention" ->
            IF s[i] = "@" /\ RunLen(s, i + 1, "word") > 0
            THEN 1 + RunLen(s, i + 1, "word") ELSE 0
      [] label = "hashtag" ->
            IF s[i] = "#" /\ RunLen(s, i + 1, "word") > 0
            THEN 1 + RunLen(s, i + 1, "word") ELSE 0
      [] label = "emoji_code" ->
            LET r == RunLen(s, i + 1, "emoji")
            IN  IF s[i] = ":" /\ r > 0 /\ i + r + 1 <= Len(s)
                   /\ s[i + r + 1] = ":"
                THEN r + 2 ELSE 0
      [] label = "caps"    -> CapsLen(s, i)

RECURSIVE FindAllFrom(_, _, _)
\* re.findall: leftmost non-overlapping matches, in order
FindAllFrom(label, s, i) ==
    IF i > Len(s) THEN << >>
    ELSE LET n == MatchLen(label, s, i)
         IN  IF n > 0
             THEN << Slice(s, i, i + n - 1) >> \o FindAllFrom(label, s, i + n)
             ELSE FindAllFrom(label, s, i + 1)

FindAll(label, s) ==
    FindAllFrom(label, s, 1)

\* f"__P{token_index}__"
Token(n) ==
    << "_", "_", "P" >> \o IntStr(n) \o << "_", "_" >>

\* the state of _protect_placeholders: the text so far, the table so far
\* (a dict in insertion order: a sequence of <<token, original>>), the index
GuardState(t, tab, idx) ==
    [text |-> t, table |-> tab, index |-> idx]

RECURSIVE ProtectMatches(_, _)
\* the inner loop: one token per element of the findall list
ProtectMatches(st, matches) ==
    IF matches = << >> THEN st
    ELSE LET m   == Head(matches)
             tok == Token(st.index)
         IN  ProtectMatches(
                 GuardState(StrReplace(st.text, m, tok),
                            Append(st.table, << tok, m >>),
                            st.index + 1),
                 Tail(matches))

RECURSIVE ProtectPatterns(_, _)
\* the outer loop: every pattern scans the text as it is by then
ProtectPatterns(st, p) ==
    IF p > Len(Patterns) THEN st
    ELSE ProtectPatterns(
             ProtectMatches(st, FindAll(Patterns[p], st.text)), p + 1)

\* _protect_placeholders(text) -> (protected_text, protected)
ProtectPlaceholders(text) ==
    LET st == ProtectPatterns(GuardState(text, << >>, 0), 1)
    IN  [text |-> st.text, table |-> st.table]

RECURSIVE RestoreFrom(_, _, _)
RestoreFrom(text, table, k) ==
    IF k > Len(table) THEN text
    ELSE RestoreFrom(StrReplace(text, table[k][1], table[k][2]), table, k + 1)

\* _restore_placeholders(text, protected): the entries in insertion order
RestorePlaceholders(text, table) ==
    RestoreFrom(text, table, 1)

\* the text has a substring of the shape __P<digits>__
HasTokenShape(s) ==
    \E i \in 1..Len(s) :
        /\ OccursAt(s, << "_", "_", "P" >>, i)
        /\ LET r == RunLen(s, i + 3, "digit")
           IN  r > 0 /\ OccursAt(s, << "_", "_" >>, i + 3 + r)

\* ------------------------------------------------------------------------
\* State
\* ------------------------------------------------------------------------
VARIABLES
    g_pc,       \* Placeholder Guard run: "in", "protected", "restored"
    g_text,     \* the text given to _protect_placeholders
    g_safe,     \* protected_text returned by _protect_placeholders
    g_table,    \* the dict `protected`, in insertion order
    g_out,      \* the result of _restore_placeholders
    p_pc,       \* pure function run: "off", "in", then the function's name
    p_in,       \* the arguments given to the function
    p_out,      \* what the function returned
    set_order,          \* iteration order of str sets in this process
    api_key,            \* self.api_key (the entry's StringVar)
    new_file,           \* self.new_file: a file name or "none"
    old_file,           \* self.old_file: a file name or "none"
    analysis_result,    \* self.analysis_result
    selected_keys,      \* self.selected_keys: a dict key -> bool
    last_output_file,   \* self.last_output_file: 0 is None, n the n-th file
    total_prompt_tokens,        \* self.total_prompt_tokens
    total_completion_tokens,    \* self.total_completion_tokens
    progress_var,       \* self.progress_var, a float (see RoundToFloat)
    btn,                \* state of the five action buttons (TRUE = normal)
    dialog,             \* the key selection Toplevel and its closure state
    remove_obsolete,    \* self.remove_obsolete (the checkbox's BooleanVar)
    w,                  \* the worker threads: locals and position of each
    nruns,              \* number of worker threads started so far
    after_queue,        \* callbacks posted with root.after(0, ...), FIFO
    requests,           \* per run, the provider requests issued, in order
    reported,           \* per run, the token counts the provider reported
    outputs,            \* per run, the file written by _save_translation_result
    shown               \* per run, what the summary / error callback showed

gvars == << g_pc, g_text, g_safe, g_table, g_out >>

purevars == << p_pc, p_in, p_out >>

envvars == << set_order, purevars >>

uivars ==
    << api_key, new_file, old_file, analysis_result, selected_keys,
       last_output_file, total_prompt_tokens, total_completion_tokens,
       progress_var, btn, dialog, remove_obsolete >>

runvars == << w, nruns, after_queue, requests, reported, outputs, shown >>

vars == << gvars, envvars, uivars, runvars >>

\* ------------------------------------------------------------------------
\* Bounds
\* ------------------------------------------------------------------------
\* the longest text given to the guard is MaxPieces fragments long
MaxPieces == 2

\* worker threads whose steps are modelled; one more thread can be started
\* (MaxStarts) and is then never scheduled within the behaviour
MaxRuns == 1

\* BATCH_SIZE (60 in the source) scaled to the keys of the model
BatchSize == 2

\* KEYS_PER_PAGE (200 in the source) scaled to the keys of the model
KeysPerPage == 1

\* the maps given to _compare_json_files alone have at most MaxKeys keys
MaxKeys == 3

\* the longest list of selected keys cut into batches of BATCH_SIZE
MaxSelected == 130

\* the most batches of a run whose progress values are followed
MaxBatches == 13

\* ------------------------------------------------------------------------
\* Dicts, files and the Diff Engine
\* ------------------------------------------------------------------------
EmptyDict == [k \in {} |-> TRUE]

\* d[k] = v
Put(d, k, v) ==
    [x \in (DOMAIN d) \cup {k} |-> IF x = k THEN v ELSE d[x]]

\* a loop that stores nothing
PutNothing(d, ks, f) ==
    d

\* for k in ks: d[k] = f[k]
PutAll(d, ks, f) ==
    [x \in (DOMAIN d) \cup ks |-> IF x \in ks THEN f[x] ELSE d[x]]

\* a JSON object in file order: a sequence of <<key, value>>
KeyList(m) ==
    [i \in 1..Len(m) |-> m[i][1]]

KeySet(m) ==
    { m[i][1] : i \in 1..Len(m) }

\* m[k] for a key of m
Value(m, k) ==
    LET i == CHOOSE j \in 1..Len(m) : m[j][1] = k IN m[i][2]

\* the documents json.load can return, by file name
FileData(name) ==
    CASE name = "new1" ->
            << << "a", << "h", "i" >> >>,
               << "b", << "{", "x", "}" >> >> >>
      [] name = "new2" ->
            << << "a", << "h", "i" >> >>,
               << "b", << "{", "x", "}" >> >>,
               << "c", << "_", "_", "P", "0", "_", "_", "{", "x", "}" >> >>,
               << "e", << "o", "k" >> >> >>
      [] name = "new3" ->
            << << "b", << "{", "x", "}" >> >> >>
      [] name = "old1" ->
            << << "a", << "s", "a", "l", "u", "t" >> >>,
               << "d", << "v", "e", "c", "h", "i" >> >> >>
      [] name = "old2" ->
            << << "a", << "s", "a", "l", "u", "t" >> >>,
               << "b", << "{", "x", "}" >> >>,
               << "c", << "c" >> >>,
               << "e", << "e" >> >>,
               << "d", << "v", "e", "c", "h", "i" >> >> >>
      [] name = "new4" ->
            << << "a", << "1" >> >>,
               << "b", << "{", "x", "}" >> >> >>
      [] name \in { "none", "missing", "garbled", "list" } -> << >>

\* what open() and json.load make of a file: "missing" cannot be opened,
\* "garbled" is not JSON, "list" is the JSON document []
FileKind(name) ==
    CASE name = "missing" -> "unreadable"
      [] name = "garbled" -> "invalid_json"
      [] name = "list"    -> "not_object"
      [] OTHER            -> "object"

\* the keys of a file whose value is a JSON number, not a string: in "new4"
\* the value of "a" is the number 1
NonStringKeys(name) ==
    IF name = "new4" THEN { "a" } ELSE {}

\* the new files and the old files the user can pick in the file dialog
NewFileNames == { "new1" }

OldFileNames == { "old1" }

\* every key of the files above, in ascending order
AllKeys == << "a", "b", "c", "d", "e" >>

Reverse(q) ==
    [i \in 1..Len(q) |-> q[Len(q) + 1 - i]]

\* list(a_set): the iteration order of a Python set of strings depends on
\* the hash seed of the process; the model draws one of two orders per
\* process, ascending or descending
ListOf(S, order) ==
    LET asc == SelectSeq(AllKeys, LAMBDA k : k \in S)
    IN  IF order = "asc" THEN asc ELSE Reverse(asc)

NoAnalysis ==
    [present |-> FALSE, new_keys |-> << >>, obsolete_keys |-> << >>,
     kept_keys |-> << >>, new_data |-> << >>, old_data |-> << >>]

\* a comparison that keeps every key of the new file
CompareJsonFilesKeepsAll(old_data, new_data, order) ==
    LET old_keys == KeySet(old_data)
        new_keys == KeySet(new_data)
    IN  [present |-> TRUE,
         new_keys |-> ListOf(new_keys \ old_keys, order),
         obsolete_keys |-> ListOf(old_keys \ new_keys, order),
         kept_keys |-> ListOf(new_keys, order),
         new_data |-> new_data, old_data |-> old_data]

\* _compare_json_files(old_data, new_data)
CompareJsonFiles(old_data, new_data, order) ==
    LET old_keys == KeySet(old_data)
        new_keys == KeySet(new_data)
    IN  [present |-> TRUE,
         new_keys |-> ListOf(new_keys \ old_keys, order),
         obsolete_keys |-> ListOf(old_keys \ new_keys, order),
         kept_keys |-> ListOf(new_keys \cap old_keys, order),
         new_data |-> new_data, old_data |-> old_data]

\* self.selected_keys.get(k, True)
SelGet(sel, k) ==
    IF k \in DOMAIN sel THEN sel[k] ELSE TRUE

\* [k for k in new_keys if self.selected_keys.get(k, True)]
SelectSeqBy(keys, sel, flag) ==
    SelectSeq(keys, LAMBDA k : SelGet(sel, k) = flag)

Range(q) ==
    { q[i] : i \in 1..Len(q) }

\* ------------------------------------------------------------------------
\* Progress values: Python floats (IEEE-754 binary64, round to nearest,
\* ties to even). The progress arithmetic stays within 0 and the values
\* from 2^-8 to 2^16, and every float in that range is a whole number of
\* units of 2^-64. A float is modelled as that whole number, written in
\* base 2^16 with the highest limb first: 37.5 is << 37, 32768, 0, 0, 0 >>
\* ------------------------------------------------------------------------
\* the bits of the significand of a float
Precision == 53

\* the bits of a limb
LimbBits == 16

Limb == 2 ^ LimbBits

\* float(n) of a natural number below 2^16
FromNat(n) ==
    << n, 0, 0, 0, 0 >>

\* the limbs 1..i of x + y + carry
RECURSIVE AddLimbs(_, _, _, _)
AddLimbs(x, y, i, carry) ==
    IF i = 0 THEN << >>
    ELSE LET t == x[i] + y[i] + carry
         IN  AddLimbs(x, y, i - 1, t \div Limb) \o << t % Limb >>

\* the limbs 1..i of x - y - borrow, for x >= y
RECURSIVE SubLimbs(_, _, _, _)
SubLimbs(x, y, i, borrow) ==
    IF i = 0 THEN << >>
    ELSE LET t == x[i] - y[i] - borrow
         IN  SubLimbs(x, y, i - 1, IF t < 0 THEN 1 ELSE 0)
                 \o << (t + Limb) % Limb >>

\* long division by d of the limbs from i on, after remainder r: the
\* quotient limbs and the remainder
RECURSIVE DivLimbs(_, _, _, _)
DivLimbs(x, d, i, r) ==
    IF i > Len(x) THEN [q |-> << >>, r |-> r]
    ELSE LET t == r * Limb + x[i]
             rest == DivLimbs(x, d, i + 1, t % d)
         IN  [q |-> << t \div d >> \o rest.q, r |-> rest.r]

\* the number of bits of a limb
LimbLength(v) ==
    CHOOSE k \in 0..LimbBits :
        v < 2 ^ k /\ (k = 0 \/ 2 ^ (k - 1) <= v)

\* the number of bits of x
BitLength(x) ==
    IF \A i \in 1..Len(x) : x[i] = 0 THEN 0
    ELSE LET first == CHOOSE i \in 1..Len(x) :
                        x[i] # 0 /\ \A j \in 1..(i - 1) : x[j] = 0
         IN  (Len(x) - first) * LimbBits + LimbLength(x[first])

\* bit k of x, bit 0 the lowest
BitAt(x, k) ==
    (x[Len(x) - (k \div LimbBits)] \div (2 ^ (k % LimbBits))) % 2

\* limb i of x with the k lowest bits of x cleared
ClearedLimb(x, k, i) ==
    LET low == k - (Len(x) - i) * LimbBits
    IN  IF low <= 0 THEN x[i]
        ELSE IF low >= LimbBits THEN 0
        ELSE x[i] - (x[i] % (2 ^ low))

\* limb i of 2^k
PowerLimb(x, k, i) ==
    IF i = Len(x) - (k \div LimbBits) THEN 2 ^ (k % LimbBits) ELSE 0

\* the float nearest to the exact value x, or to a value between x and
\* x + 1 if inexact; ties go to the even significand
RoundToFloat(x, inexact) ==
    LET drop == BitLength(x) - Precision
        half == BitAt(x, drop - 1) = 1
        below == inexact \/ \E k \in 0..(drop - 2) : BitAt(x, k) = 1
        odd == BitAt(x, drop) = 1
        kept == << ClearedLimb(x, drop, 1), ClearedLimb(x, drop, 2),
                   ClearedLimb(x, drop, 3), ClearedLimb(x, drop, 4),
                   ClearedLimb(x, drop, 5) >>
        ulp == << PowerLimb(x, drop, 1), PowerLimb(x, drop, 2),
                  PowerLimb(x, drop, 3), PowerLimb(x, drop, 4),
                  PowerLimb(x, drop, 5) >>
    IN  IF drop <= 0 THEN x
        ELSE IF half /\ (below \/ odd) THEN AddLimbs(kept, ulp, Len(x), 0)
        ELSE kept

\* a <= b
FloatLeq(a, b) ==
    \/ a = b
    \/ \E i \in 1..Len(a) :
            /\ a[i] < b[i]
            /\ \A j \in 1..(i - 1) : a[j] = b[j]

\* min(a, b)
FloatMin(a, b) ==
    IF FloatLeq(a, b) THEN a ELSE b

\* a + b
FloatAdd(a, b) ==
    RoundToFloat(AddLimbs(a, b, Len(a), 0), FALSE)

\* a - b for a >= b
FloatSub(a, b) ==
    RoundToFloat(SubLimbs(a, b, Len(a), 0), FALSE)

\* a / d for a natural number d, 0 < d < 2^15
FloatDivNat(a, d) ==
    LET quot == DivLimbs(a, d, 1, 0)
    IN  RoundToFloat(quot.q, quot.r # 0)

Zero == FromNat(0)

Hundred == FromNat(100)

\* initial_progress = 100.0 / (2 * num_batches)
InitialProgress(num_batches) ==
    FloatDivNat(Hundred, 2 * num_batches)

\* per_batch_increment = (100.0 - initial_progress) / num_batches
PerBatchIncrement(num_batches) ==
    FloatDivNat(FloatSub(Hundred, InitialProgress(num_batches)), num_batches)

\* ------------------------------------------------------------------------
\* Buttons
\* ------------------------------------------------------------------------
\* setup_bottom_panel: analyze enabled, the four others disabled
FreshButtons ==
    [analyze |-> TRUE, select |-> FALSE, preview |-> FALSE,
     translate |-> FALSE, view_output |-> FALSE]

\* _disable_all_buttons
AllDisabled ==
    [analyze |-> FALSE, select |-> FALSE, preview |-> FALSE,
     translate |-> FALSE, view_output |-> FALSE]

\* ------------------------------------------------------------------------
\* The key selection dialog
\* ------------------------------------------------------------------------
NoDialog ==
    [open |-> FALSE, new_keys |-> << >>, page |-> 1, page_vars |-> EmptyDict,
     obsolete_box |-> FALSE]

\* total_pages = (len(new_keys) + KEYS_PER_PAGE - 1) // KEYS_PER_PAGE
TotalPages(new_keys) ==
    (Len(new_keys) + KeysPerPage - 1) \div KeysPerPage

Min(a, b) ==
    IF a <= b THEN a ELSE b

\* the keys _render_selection_page shows on `page`
PageKeys(new_keys, page) ==
    LET start == (page - 1) * KeysPerPage
        end   == Min(start + KeysPerPage, Len(new_keys))
    IN  { new_keys[i] : i \in (start + 1)..end }

\* for key, var in page_vars.items(): self.selected_keys[key] = var.get()
SavePageVars(sel, page_vars) ==
    PutAll(sel, DOMAIN page_vars, page_vars)

\* _create_key_row for every key of the page: var = selected_keys.get(key, True)
RenderVars(sel, new_keys, page) ==
    [k \in PageKeys(new_keys, page) |-> SelGet(sel, k)]

\* ------------------------------------------------------------------------
\* Translation Client Adapter (pure parts of _translate_batch)
\* ------------------------------------------------------------------------
\* for attempt in range(2)
MaxAttempts == 2

\* a value of the parsed response: a string, another JSON value, or None
StrVal(t) == [type |-> "str", text |-> t]

OtherVal == [type |-> "other", text |-> << >>]

NoneVal == [type |-> "none", text |-> << >>]

\* what the provider can return for one key of the payload
ReplyKinds == { "str", "blank", "nonstr", "missing" }

\* the provider's rewriting of a guarded text: it keeps the tokens
ProviderText(guarded) ==
    << "t", ":" >> \o guarded

\* the dict json.loads returns for a JSON object with the given reply per key
ObjectOf(payload, kinds) ==
    [isdict |-> TRUE,
     vals |-> [k \in { x \in DOMAIN payload : kinds[x] # "missing" } |->
                 CASE kinds[k] = "str"    -> StrVal(ProviderText(payload[k]))
                   [] kinds[k] = "blank"  -> StrVal(<< " " >>)
                   [] kinds[k] = "nonstr" -> OtherVal]]

\* parsed = {} (the initial value, and the value after a failed json.loads)
EmptyParsed ==
    [isdict |-> TRUE, vals |-> EmptyDict]

\* json.loads returned a list, a string or a number
NonObjectParsed ==
    [isdict |-> FALSE, vals |-> EmptyDict]

\* STEP 1: safe_value, placeholders for every key of batch_dict
ProtectBatch(new_data, batch_keys) ==
    LET ks == Range(batch_keys)
    IN  [payload |-> [k \in ks |-> ProtectPlaceholders(Value(new_data, k)).text],
         tables  |-> [k \in ks |-> ProtectPlaceholders(Value(new_data, k)).table]]

\* parsed.get(key) if isinstance(parsed, dict) else None
ParsedGet(parsed, k) ==
    IF parsed.isdict /\ k \in DOMAIN parsed.vals THEN parsed.vals[k] ELSE NoneVal

\* not translated_value.strip()
IsBlank(t) ==
    \A i \in 1..Len(t) : IsSpace(t[i])

\* not isinstance(translated_value, str) or not translated_value.strip()
FallsBack(v) ==
    v.type # "str" \/ IsBlank(v.text)

\* STEP 3: fallback to the original value, then restore, for every key
BatchResult(new_data, batch_keys, tables, parsed) ==
    [k \in Range(batch_keys) |->
        LET v == ParsedGet(parsed, k)
            translated_value ==
                IF FallsBack(v) THEN Value(new_data, k) ELSE v.text
        IN  RestorePlaceholders(translated_value, tables[k])]

\* a loop that goes round again whatever json.loads did
NeedsRetryAnyResponse(parse_ok, attempts_done) ==
    attempts_done < MaxAttempts

\* the attempt loop goes round again: json.loads raised and attempts remain
NeedsRetry(parse_ok, attempts_done) ==
    ~parse_ok /\ attempts_done < MaxAttempts

\* response.usage of one request, as the provider reports it
ProviderUsage(payload) ==
    [prompt_tokens |-> Cardinality(DOMAIN payload),
     completion_tokens |-> Cardinality(DOMAIN payload)]

\* BATCH_SIZE
BATCH_SIZE == 60

MAX_KEYS_DISPLAY == 15

\* batches that leave out a last batch shorter than the batch size
MakeBatchesFullOnly(to_translate, size) ==
    [j \in 1..(Len(to_translate) \div size) |->
        SubSeq(to_translate, (j - 1) * size + 1, j * size)]

\* to_translate[i: i + BATCH_SIZE] for i in range(0, len(to_translate), BATCH_SIZE)
MakeBatches(to_translate, size) ==
    [j \in 1..((Len(to_translate) + size - 1) \div size) |->
        SubSeq(to_translate, (j - 1) * size + 1,
               Min(j * size, Len(to_translate)))]

\* an assembler that honours the option: with "remove obsolete" unchecked
\* the obsolete keys follow the keys of the new file, with their old values
SortedResultKeepingObsolete(new_data, result) ==
    LET new_order == KeyList(new_data)
        kept == SelectSeq(new_order, LAMBDA k : k \in DOMAIN result)
        obsolete == IF remove_obsolete THEN << >>
                    ELSE analysis_result.obsolete_keys
    IN  [i \in 1..Len(kept) |-> << kept[i], result[kept[i]] >>]
        \o [i \in 1..Len(obsolete) |->
              << obsolete[i], Value(analysis_result.old_data, obsolete[i]) >>]

\* {k: result[k] for k in new_order if k in result}
SortedResult(new_data, result) ==
    LET new_order == KeyList(new_data)
        kept == SelectSeq(new_order, LAMBDA k : k \in DOMAIN result)
    IN  [i \in 1..Len(kept) |-> << kept[i], result[kept[i]] >>]

\* COST_INPUT_PER_MILLION and COST_OUTPUT_PER_MILLION, in cents
CostInputPerMillion == 15

CostOutputPerMillion == 60

\* total_cost of _show_translation_summary, in cents per million tokens
TotalCost(input_tokens, output_tokens) ==
    input_tokens * CostInputPerMillion + output_tokens * CostOutputPerMillion

\* ------------------------------------------------------------------------
\* Worker threads
\* ------------------------------------------------------------------------
Runs == 1..MaxRuns

MaxStarts == MaxRuns + 1

IdleWorker ==
    [pc |-> "unstarted", result |-> EmptyDict, to_translate |-> << >>,
     batches |-> << >>, bi |-> 0, attempt |-> 0,
     batch_dict |-> << >>, payload |-> EmptyDict, tables |-> EmptyDict,
     current_progress |-> Zero, e |-> "unbound", cause |-> "none",
     lacked |-> {}, started_with |-> << >>]

\* the analysis result and the selection at the moment a run is started
RunStartState ==
    [analysis_result |-> analysis_result, selected_keys |-> selected_keys]

NothingShown ==
    [kind |-> "none", prompt |-> 0, completion |-> 0, cost |-> 0,
     cause |-> "none"]

NoOutput ==
    [written |-> FALSE, doc |-> << >>, new_order |-> << >>]

Callback(kind, run, prog) ==
    [kind |-> kind, run |-> run, prog |-> prog]

\* the run is in flight: its thread was started and its button re-enable
\* callback has not run yet
InFlight(i) ==
    w[i].pc \notin { "unstarted", "finished" }

\* some modelled run is in flight
SomeRunInFlight ==
    \E i \in Runs : InFlight(i)

\* the number of runs in flight: the modelled workers in flight and the
\* threads started beyond them
InFlightCount ==
    Cardinality({ i \in Runs : InFlight(i) })
        + (IF nruns > MaxRuns THEN nruns - MaxRuns ELSE 0)

\* ------------------------------------------------------------------------
\* Init
\* ------------------------------------------------------------------------
GuardIdle ==
    /\ g_pc = "off"
    /\ g_text = << >>
    /\ g_safe = << >>
    /\ g_table = << >>
    /\ g_out = << >>

PureIdle ==
    /\ p_pc = "off"
    /\ p_in = << >>
    /\ p_out = << >>

Init ==
    /\ GuardIdle
    /\ PureIdle
    /\ set_order \in { "asc", "desc" }
    /\ api_key \in { "", "sk" }
    /\ new_file = "none"
    /\ old_file = "none"
    /\ analysis_result = NoAnalysis
    /\ selected_keys = EmptyDict
    /\ last_output_file = 0
    /\ total_prompt_tokens = 0
    /\ total_completion_tokens = 0
    /\ progress_var = Zero
    /\ btn = FreshButtons
    /\ dialog = NoDialog
    /\ remove_obsolete = TRUE
    /\ w = [i \in Runs |-> IdleWorker]
    /\ nruns = 0
    /\ after_queue = << >>
    /\ requests = [i \in Runs |-> << >>]
    /\ reported = [i \in Runs |-> [prompt |-> 0, completion |-> 0]]
    /\ outputs = [i \in Runs |-> NoOutput]
    /\ shown = [i \in Runs |-> NothingShown]

\* ------------------------------------------------------------------------
\* UI thread: one action per event handler
\* ------------------------------------------------------------------------
\* select_file(file_type) with a file chosen in the file dialog
SelectFileFrom(new_names, old_names) ==
    /\ \/ \E f \in new_names :
            /\ new_file # f
            /\ new_file' = f
            /\ UNCHANGED old_file
       \/ \E f \in old_names :
            /\ old_file # f
            /\ old_file' = f
            /\ UNCHANGED new_file
    /\ UNCHANGED << api_key, analysis_result, selected_keys, last_output_file,
                    total_prompt_tokens, total_completion_tokens,
                    progress_var, btn, dialog, remove_obsolete >>
    /\ UNCHANGED << gvars, envvars, runvars >>

\* in the application the user picks the files before the first analysis
SelectFile ==
    /\ ~analysis_result.present
    /\ SelectFileFrom(NewFileNames, OldFileNames)

\* clear_file("old")
ClearOldFile ==
    /\ old_file # "none"
    /\ old_file' = "none"
    /\ UNCHANGED << api_key, new_file, analysis_result, selected_keys,
                    last_output_file, total_prompt_tokens,
                    total_completion_tokens, progress_var, btn, dialog,
                    remove_obsolete >>
    /\ UNCHANGED << gvars, envvars, runvars >>

ClearFile ==
    /\ ~analysis_result.present
    /\ ClearOldFile

\* a load that only notices a new file it cannot read
LoadFailsNewOnly(new_name, old_name) ==
    FileKind(new_name) \in { "unreadable", "invalid_json" }

\* open() or json.load raises, for the new file or for the old file
LoadFails(new_name, old_name) ==
    \/ FileKind(new_name) \in { "unreadable", "invalid_json" }
    \/ /\ old_name # "none"
       /\ FileKind(old_name) \in { "unreadable", "invalid_json" }

\* _compare_json_files raises: a document that is not an object has no keys()
CompareFails(new_name, old_name) ==
    \/ FileKind(new_name) = "not_object"
    \/ /\ old_name # "none"
       /\ FileKind(old_name) = "not_object"

\* _display_new_keys raises: _truncate_text takes len() of a number
DisplayFails(analysis, new_name) ==
    \E i \in 1..Len(analysis.new_keys) :
        /\ i <= MAX_KEYS_DISPLAY
        /\ analysis.new_keys[i] \in NonStringKeys(new_name)

\* how analyze_files ends: with the analysis shown, or in its except branch
AnalyzeOutcome ==
    LET analysis == CompareJsonFiles(FileData(old_file),
                                     FileData(new_file), set_order)
    IN  IF \/ LoadFails(new_file, old_file)
           \/ CompareFails(new_file, old_file)
           \/ DisplayFails(analysis, new_file)
        THEN "analysis_error"
        ELSE "analysed"

\* a selection that keeps the choices made for keys that are still new
KeptSelection(new_keys) ==
    [k \in Range(new_keys) |-> SelGet(selected_keys, k)]

\* {key: True for key in analysis["new_keys"]}
DefaultSelection(new_keys) ==
    [k \in Range(new_keys) |-> TRUE]

\* the body of analyze_files once a new file is set
AnalyzeEffects ==
    LET analysis == CompareJsonFiles(FileData(old_file),
                                     FileData(new_file), set_order)
    IN
    IF LoadFails(new_file, old_file) \/ CompareFails(new_file, old_file)
    THEN \* raised before display_analysis
         UNCHANGED << analysis_result, progress_var, selected_keys, btn >>
    ELSE IF DisplayFails(analysis, new_file)
    THEN \* display_analysis stored the analysis, then raised
         /\ analysis_result' = analysis
         /\ UNCHANGED << progress_var, selected_keys, btn >>
    ELSE \* display_analysis(analysis), then the buttons
         /\ analysis_result' = analysis
         /\ progress_var' = Zero
         /\ IF analysis.new_keys # << >> \/ analysis.obsolete_keys # << >>
            THEN /\ selected_keys' = DefaultSelection(analysis.new_keys)
                 /\ btn' = [btn EXCEPT !.select = TRUE, !.preview = TRUE,
                                       !.translate = TRUE,
                                       !.view_output = FALSE]
            ELSE /\ selected_keys' = selected_keys
                 /\ btn' = [btn EXCEPT !.select = FALSE, !.preview = FALSE,
                                       !.translate = FALSE,
                                       !.view_output = FALSE]

\* analyze_files, clicked on an enabled analyze button
AnalyzeFiles ==
    /\ btn.analyze
    /\ new_file # "none"
    /\ AnalyzeEffects
    /\ UNCHANGED << api_key, new_file, old_file, last_output_file,
                    total_prompt_tokens, total_completion_tokens, dialog,
                    remove_obsolete >>
    /\ UNCHANGED << gvars, envvars, runvars >>

\* change_ui_language -> refresh_ui: every child of the root window is
\* destroyed (the selection Toplevel too) and the panels are built again
ChangeUiLanguage ==
    /\ btn' = FreshButtons
    /\ dialog' = NoDialog
    /\ progress_var' = IF analysis_result.present THEN Zero ELSE progress_var
    /\ \/ btn # FreshButtons
       \/ dialog # NoDialog
       \/ progress_var' # progress_var
    /\ UNCHANGED << api_key, new_file, old_file, analysis_result,
                    selected_keys, last_output_file, total_prompt_tokens,
                    total_completion_tokens, remove_obsolete >>
    /\ UNCHANGED << gvars, envvars, runvars >>

\* show_selection_dialog, clicked on an enabled select button
ShowSelectionDialog ==
    /\ btn.select
    /\ ~dialog.open
    /\ analysis_result.present
    /\ analysis_result.new_keys # << >>
    /\ LET new_keys == analysis_result.new_keys
       IN  dialog' = [open |-> TRUE, new_keys |-> new_keys, page |-> 1,
                      page_vars |-> RenderVars(selected_keys, new_keys, 1),
                      obsolete_box |-> analysis_result.obsolete_keys # << >>]
    /\ UNCHANGED << api_key, new_file, old_file, analysis_result,
                    selected_keys, last_output_file, total_prompt_tokens,
                    total_completion_tokens, progress_var, btn,
                    remove_obsolete >>
    /\ UNCHANGED << gvars, envvars, runvars >>

\* the user clicks the checkbox of one row (its BooleanVar flips)
ToggleCheckbox ==
    /\ dialog.open
    /\ \E k \in DOMAIN dialog.page_vars :
        dialog' = [dialog EXCEPT !.page_vars[k] = ~dialog.page_vars[k]]
    /\ UNCHANGED << api_key, new_file, old_file, analysis_result,
                    selected_keys, last_output_file, total_prompt_tokens,
                    total_completion_tokens, progress_var, btn,
                    remove_obsolete >>
    /\ UNCHANGED << gvars, envvars, runvars >>

\* the user clicks the "remove obsolete" checkbox of the dialog, which is
\* there when the analysis had obsolete keys as the dialog was built
ToggleRemoveObsolete ==
    /\ dialog.open
    /\ dialog.obsolete_box
    /\ remove_obsolete' = ~remove_obsolete
    /\ UNCHANGED << api_key, new_file, old_file, analysis_result,
                    selected_keys, last_output_file, total_prompt_tokens,
                    total_completion_tokens, progress_var, btn, dialog >>
    /\ UNCHANGED << gvars, envvars, runvars >>

\* on_select_all / on_deselect_all
SelectAll(flag) ==
    /\ dialog.open
    /\ selected_keys' =
          PutAll(selected_keys, Range(dialog.new_keys),
                 [k \in Range(dialog.new_keys) |-> flag])
    /\ dialog' = [dialog EXCEPT
                    !.page_vars = [k \in DOMAIN dialog.page_vars |-> flag]]
    /\ selected_keys' # selected_keys \/ dialog' # dialog
    /\ UNCHANGED << api_key, new_file, old_file, analysis_result,
                    last_output_file, total_prompt_tokens,
                    total_completion_tokens, progress_var, btn,
                    remove_obsolete >>
    /\ UNCHANGED << gvars, envvars, runvars >>

OnSelectAll == SelectAll(TRUE)

OnDeselectAll == SelectAll(FALSE)

\* _navigate_page(direction) -> _render_selection_page
NavigatePage ==
    /\ dialog.open
    /\ \E direction \in { -1, 1 } :
        LET new_page == dialog.page + direction
            saved == SavePageVars(selected_keys, dialog.page_vars)
        IN  /\ 1 <= new_page
            /\ new_page <= TotalPages(dialog.new_keys)
            /\ selected_keys' = saved
            /\ dialog' = [dialog EXCEPT
                            !.page = new_page,
                            !.page_vars =
                                RenderVars(saved, dialog.new_keys, new_page)]
    /\ UNCHANGED << api_key, new_file, old_file, analysis_result,
                    last_output_file, total_prompt_tokens,
                    total_completion_tokens, progress_var, btn,
                    remove_obsolete >>
    /\ UNCHANGED << gvars, envvars, runvars >>

\* on_save_and_close
OnSaveAndClose ==
    /\ dialog.open
    /\ selected_keys' = SavePageVars(selected_keys, dialog.page_vars)
    /\ dialog' = NoDialog
    /\ UNCHANGED << api_key, new_file, old_file, analysis_result,
                    last_output_file, total_prompt_tokens,
                    total_completion_tokens, progress_var, btn,
                    remove_obsolete >>
    /\ UNCHANGED << gvars, envvars, runvars >>

\* the cancel button: dialog.destroy
OnCancel ==
    /\ dialog.open
    /\ dialog' = NoDialog
    /\ UNCHANGED << api_key, new_file, old_file, analysis_result,
                    selected_keys, last_output_file, total_prompt_tokens,
                    total_completion_tokens, progress_var, btn,
                    remove_obsolete >>
    /\ UNCHANGED << gvars, envvars, runvars >>

\* not self.api_key.get().strip()
ApiKeyBlank(key) ==
    key \in { "", " " }

\* a start_translation that goes on whatever the API key entry holds
StartRejectionNoKeyCheck ==
    IF ~analysis_result.present \/ analysis_result.new_keys = << >>
    THEN "nothing_to_translate_info"
    ELSE IF SelectSeqBy(analysis_result.new_keys, selected_keys, TRUE) = << >>
    THEN "no_keys_selected"
    ELSE "none"

\* the early returns of start_translation: the message shown, or "none"
\* when the handler goes on to the confirmation dialog
StartRejection ==
    IF ApiKeyBlank(api_key)
    THEN "set_api_key_error"
    ELSE IF ~analysis_result.present \/ analysis_result.new_keys = << >>
    THEN "nothing_to_translate_info"
    ELSE IF SelectSeqBy(analysis_result.new_keys, selected_keys, TRUE) = << >>
    THEN "no_keys_selected"
    ELSE "none"

\* lines 1896-1904: the buttons disabled, the progress reset, the thread
\* started
StartWorker ==
    /\ btn' = AllDisabled
    /\ progress_var' = Zero
    /\ nruns' = nruns + 1
    /\ w' = IF nruns + 1 \in Runs
            THEN [w EXCEPT ![nruns + 1] =
                    [IdleWorker EXCEPT !.pc = "start",
                                       !.started_with = RunStartState]]
            ELSE w
    /\ UNCHANGED << api_key, new_file, old_file, analysis_result,
                    selected_keys, last_output_file, total_prompt_tokens,
                    total_completion_tokens, dialog, remove_obsolete >>
    /\ UNCHANGED << after_queue, requests, reported, outputs, shown >>

\* start_translation, clicked on an enabled translate button and confirmed
StartTranslation ==
    /\ btn.translate
    /\ StartRejection = "none"
    /\ nruns < MaxStarts
    /\ StartWorker
    /\ UNCHANGED << gvars, envvars >>

\* ------------------------------------------------------------------------
\* Worker thread translate_keys: one action per step between two accesses
\* to state shared with the UI thread or two provider round trips
\* ------------------------------------------------------------------------
uidata ==
    << api_key, new_file, old_file, analysis_result, selected_keys,
       progress_var, btn, dialog, remove_obsolete >>

\* a scheduler that runs the callback posted last first
PostFirst(kind, i, prog) ==
    after_queue' = << Callback(kind, i, prog) >> \o after_queue

\* root.after(0, callback) from run i
Post(kind, i, prog) ==
    after_queue' = Append(after_queue, Callback(kind, i, prog))

\* batch_dict = {k: self.analysis_result["new_data"][k] for k in batch_keys}
BatchDict(new_data, batch_keys) ==
    [j \in 1..Len(batch_keys) |->
        << batch_keys[j], Value(new_data, batch_keys[j]) >>]

\* the worker enters _translate_batch for batch b: batch_dict, STEP 1 and
\* the prompts; KeyError when the current analysis lacks a key of the batch
EnterBatch(wi, b) ==
    IF Range(wi.batches[b]) \subseteq KeySet(analysis_result.new_data)
    THEN LET batch_dict == BatchDict(analysis_result.new_data, wi.batches[b])
             pb == ProtectBatch(batch_dict, wi.batches[b])
         IN  [wi EXCEPT !.bi = b, !.attempt = 0, !.batch_dict = batch_dict,
                        !.payload = pb.payload, !.tables = pb.tables,
                        !.pc = "request"]
    ELSE [wi EXCEPT !.bi = b, !.attempt = 0, !.batch_dict = << >>,
                    !.payload = EmptyDict, !.tables = EmptyDict,
                    !.pc = "except", !.e = "bound", !.cause = "key_error"]

\* lines 1923-1939: kept keys, counter reset, _init_translation_ui posted
TranslateKeysBegin(i) ==
    /\ w[i].pc = "start"
    /\ w' = [w EXCEPT ![i].result =
                [k \in Range(analysis_result.kept_keys) |->
                    Value(analysis_result.old_data, k)],
              ![i].pc = "select"]
    /\ total_prompt_tokens' = 0
    /\ total_completion_tokens' = 0
    /\ Post("init_ui", i, Zero)
    /\ UNCHANGED << uidata, last_output_file >>
    /\ UNCHANGED << nruns, requests, reported, outputs, shown >>
    /\ UNCHANGED << gvars, envvars >>

\* lines 1941-1966 and 2009-2017: the first read of the selection, the
\* batches, the initial progress; or RuntimeError when nothing is selected
TranslateKeysSelect(i) ==
    /\ w[i].pc = "select"
    /\ LET to_translate ==
               SelectSeqBy(analysis_result.new_keys, selected_keys, TRUE)
           batches == MakeBatches(to_translate, BatchSize)
           ip == InitialProgress(Len(batches))
       IN  IF to_translate = << >>
           THEN /\ w' = [w EXCEPT ![i].pc = "except",
                                  ![i].e = "bound",
                                  ![i].cause = "no_keys"]
                /\ UNCHANGED after_queue
           ELSE /\ w' = [w EXCEPT ![i] =
                          EnterBatch([w[i] EXCEPT
                                        !.to_translate = to_translate,
                                        !.batches = batches,
                                        !.current_progress = ip], 1)]
                /\ Post("progress", i, ip)
    /\ UNCHANGED << uidata, last_output_file, total_prompt_tokens,
                    total_completion_tokens >>
    /\ UNCHANGED << nruns, requests, reported, outputs, shown >>
    /\ UNCHANGED << gvars, envvars >>

\* one more entry in the log of provider requests of run i
LogRequest(i, resp) ==
    requests' = [requests EXCEPT ![i] =
                    Append(@, [batch |-> w[i].bi, attempt |-> w[i].attempt + 1,
                               payload |-> w[i].payload, resp |-> resp])]

\* the provider answered: it reports the usage of the request
ReportUsage(i) ==
    LET u == ProviderUsage(w[i].payload)
    IN  reported' = [reported EXCEPT
                       ![i].prompt = @ + u.prompt_tokens,
                       ![i].completion = @ + u.completion_tokens]

\* a batch loop that swallows the exception of a request and goes on to
\* save what the earlier batches produced
RequestRaisesThenSaves(i) ==
    /\ w[i].pc = "request"
    /\ LogRequest(i, "raise")
    /\ w' = [w EXCEPT ![i].pc = "finish", ![i].cause = "provider"]
    /\ UNCHANGED << uidata, last_output_file, total_prompt_tokens,
                    total_completion_tokens >>
    /\ UNCHANGED << nruns, after_queue, reported, outputs, shown >>
    /\ UNCHANGED << gvars, envvars >>

\* client.chat.completions.create raises (network or provider error): the
\* exception leaves _translate_batch and _process_translation_batches
RequestRaises(i) ==
    /\ w[i].pc = "request"
    /\ LogRequest(i, "raise")
    /\ w' = [w EXCEPT ![i].pc = "except", ![i].e = "bound",
                      ![i].cause = "provider"]
    /\ UNCHANGED << uidata, last_output_file, total_prompt_tokens,
                    total_completion_tokens >>
    /\ UNCHANGED << nruns, after_queue, reported, outputs, shown >>
    /\ UNCHANGED << gvars, envvars >>

\* lines 2111-2121 and 2028-2044: the batch result from `parsed`, applied
\* to `result`; progress posted; then the next batch or the end of the loop
FinishBatch(i, parsed) ==
    LET wi == w[i]
        batch_keys == wi.batches[wi.bi]
        translated_batch ==
            BatchResult(wi.batch_dict, batch_keys, wi.tables, parsed)
        result == PutAll(wi.result, Range(batch_keys), translated_batch)
        prog == FloatMin(FloatAdd(wi.current_progress,
                                PerBatchIncrement(Len(wi.batches))), Hundred)
        lacked == { k \in Range(batch_keys) :
                      LET v == ParsedGet(parsed, k)
                      IN  v.type # "str" \/ v.text = << >>
                          \/ \A j \in 1..Len(v.text) : v.text[j] = " " }
        w1 == [wi EXCEPT !.result = result, !.current_progress = prog,
                         !.lacked = wi.lacked \cup lacked]
    IN  /\ w' = [w EXCEPT ![i] =
                   IF wi.bi < Len(wi.batches)
                   THEN EnterBatch(w1, wi.bi + 1)
                   ELSE [w1 EXCEPT !.pc = "finish", !.attempt = 0,
                                   !.batch_dict = << >>,
                                   !.payload = EmptyDict, !.tables = EmptyDict]]
        /\ Post("batch_progress", i, prog)

\* _try_request returns text that json.loads rejects
RequestUnparseable(i) ==
    /\ w[i].pc = "request"
    /\ LogRequest(i, "unparseable")
    /\ ReportUsage(i)
    /\ IF NeedsRetry(FALSE, w[i].attempt + 1)
       THEN /\ w' = [w EXCEPT ![i].attempt = @ + 1]
            /\ UNCHANGED after_queue
       ELSE FinishBatch(i, EmptyParsed)
    /\ UNCHANGED << uidata, last_output_file, total_prompt_tokens,
                    total_completion_tokens >>
    /\ UNCHANGED << nruns, outputs, shown >>
    /\ UNCHANGED << gvars, envvars >>

\* _try_request returns text that json.loads accepts: an object with some
\* reply for every key, or a JSON value that is not an object
RequestParsed(i) ==
    /\ w[i].pc = "request"
    /\ ReportUsage(i)
    /\ \E parsed \in
            { ObjectOf(w[i].payload, kinds) :
                kinds \in [DOMAIN w[i].payload -> ReplyKinds] }
            \cup { NonObjectParsed } :
        /\ LogRequest(i, IF parsed.isdict THEN "object" ELSE "nonobject")
        /\ IF NeedsRetry(TRUE, w[i].attempt + 1)
           THEN /\ w' = [w EXCEPT ![i].attempt = @ + 1]
                /\ UNCHANGED after_queue
           ELSE FinishBatch(i, parsed)
    /\ UNCHANGED << uidata, last_output_file, total_prompt_tokens,
                    total_completion_tokens >>
    /\ UNCHANGED << nruns, outputs, shown >>
    /\ UNCHANGED << gvars, envvars >>

\* lines 1968-1982: the second read of the selection, the sort, the save
TranslateKeysFinish(i) ==
    /\ w[i].pc = "finish"
    /\ LET skipped == Range(SelectSeqBy(analysis_result.new_keys,
                                        selected_keys, FALSE))
           result == PutAll(w[i].result, skipped,
                            [k \in skipped |->
                                Value(analysis_result.new_data, k)])
           sorted_result == SortedResult(analysis_result.new_data, result)
       IN  /\ w' = [w EXCEPT ![i].result = result, ![i].pc = "finally"]
           /\ outputs' = [outputs EXCEPT ![i] =
                            [written |-> TRUE, doc |-> sorted_result,
                             new_order |-> KeyList(analysis_result.new_data)]]
    /\ last_output_file' = i
    /\ Post("summary", i, Hundred)
    /\ UNCHANGED << uidata, total_prompt_tokens, total_completion_tokens >>
    /\ UNCHANGED << nruns, requests, reported, shown >>
    /\ UNCHANGED << gvars, envvars >>

\* line 1985: the error callback is posted; its lambda refers to the
\* variable e of this frame
TranslateKeysExcept(i) ==
    /\ w[i].pc = "except"
    /\ w' = [w EXCEPT ![i].pc = "except_exit"]
    /\ Post("error", i, Zero)
    /\ UNCHANGED << uidata, last_output_file, total_prompt_tokens,
                    total_completion_tokens >>
    /\ UNCHANGED << nruns, requests, reported, outputs, shown >>
    /\ UNCHANGED << gvars, envvars >>

\* an except block that ends the thread, as if the re-enable callback were
\* posted at the end of the try block instead of in a finally clause
TranslateKeysExceptExitNoFinally(i) ==
    /\ w[i].pc = "except_exit"
    /\ w' = [w EXCEPT ![i] = [IdleWorker EXCEPT
                                  !.pc = "ended",
                                  !.cause = w[i].cause,
                                  !.started_with = w[i].started_with]]
    /\ UNCHANGED << uidata, last_output_file, total_prompt_tokens,
                    total_completion_tokens >>
    /\ UNCHANGED << nruns, after_queue, requests, reported, outputs, shown >>
    /\ UNCHANGED << gvars, envvars >>

\* the end of the `except ... as e` block: Python unbinds e
TranslateKeysExceptExit(i) ==
    /\ w[i].pc = "except_exit"
    /\ w' = [w EXCEPT ![i].pc = "finally", ![i].e = "unbound"]
    /\ UNCHANGED << uidata, last_output_file, total_prompt_tokens,
                    total_completion_tokens >>
    /\ UNCHANGED << nruns, after_queue, requests, reported, outputs, shown >>
    /\ UNCHANGED << gvars, envvars >>

\* line 1988: the button re-enable callback is posted; the thread ends
TranslateKeysFinally(i) ==
    /\ w[i].pc = "finally"
    /\ w' = [w EXCEPT ![i] = [IdleWorker EXCEPT
                                  !.pc = "ended",
                                  !.cause = w[i].cause,
                                  !.started_with = w[i].started_with]]
    /\ Post("enable", i, Zero)
    /\ UNCHANGED << uidata, last_output_file, total_prompt_tokens,
                    total_completion_tokens >>
    /\ UNCHANGED << nruns, requests, reported, outputs, shown >>
    /\ UNCHANGED << gvars, envvars >>

\* ------------------------------------------------------------------------
\* UI thread: the callbacks posted by the workers, run in posting order
\* ------------------------------------------------------------------------
NextCallback(kind) ==
    /\ after_queue # << >>
    /\ Head(after_queue).kind = kind

\* _init_translation_ui
CbInitUi ==
    /\ NextCallback("init_ui")
    /\ after_queue' = Tail(after_queue)
    /\ progress_var' = Zero
    /\ UNCHANGED << api_key, new_file, old_file, analysis_result,
                    selected_keys, last_output_file, total_prompt_tokens,
                    total_completion_tokens, btn, dialog, remove_obsolete >>
    /\ UNCHANGED << w, nruns, requests, reported, outputs, shown >>
    /\ UNCHANGED << gvars, envvars >>

\* lambda: self.progress_var.set(initial_progress), and
\* _update_batch_progress(idx, total, keys, result, prog)
CbProgress ==
    /\ \/ NextCallback("progress")
       \/ NextCallback("batch_progress")
    /\ after_queue' = Tail(after_queue)
    /\ progress_var' = Head(after_queue).prog
    /\ UNCHANGED << api_key, new_file, old_file, analysis_result,
                    selected_keys, last_output_file, total_prompt_tokens,
                    total_completion_tokens, btn, dialog, remove_obsolete >>
    /\ UNCHANGED << w, nruns, requests, reported, outputs, shown >>
    /\ UNCHANGED << gvars, envvars >>

\* _show_translation_summary(output_file)
CbSummary ==
    /\ NextCallback("summary")
    /\ after_queue' = Tail(after_queue)
    /\ progress_var' = Hundred
    /\ shown' = [shown EXCEPT ![Head(after_queue).run] =
                    [kind |-> "summary",
                     prompt |-> total_prompt_tokens,
                     completion |-> total_completion_tokens,
                     cost |-> TotalCost(total_prompt_tokens,
                                        total_completion_tokens),
                     cause |-> "none"]]
    /\ UNCHANGED << api_key, new_file, old_file, analysis_result,
                    selected_keys, last_output_file, total_prompt_tokens,
                    total_completion_tokens, btn, dialog, remove_obsolete >>
    /\ UNCHANGED << w, nruns, requests, reported, outputs >>
    /\ UNCHANGED << gvars, envvars >>

\* lambda: self._show_translation_error(e): the lambda reads e when it
\* runs; if the worker has left the except block by then, e is unbound and
\* the lambda raises NameError instead of showing the error
CbError ==
    /\ NextCallback("error")
    /\ after_queue' = Tail(after_queue)
    /\ LET i == Head(after_queue).run
       IN  shown' = [shown EXCEPT ![i] =
                       IF w[i].e = "bound"
                       THEN [NothingShown EXCEPT !.kind = "error",
                                                 !.cause = w[i].cause]
                       ELSE [NothingShown EXCEPT !.kind = "name_error"]]
    /\ UNCHANGED uivars
    /\ UNCHANGED << w, nruns, requests, reported, outputs >>
    /\ UNCHANGED << gvars, envvars >>

\* _enable_buttons_after_translation
CbEnable ==
    /\ NextCallback("enable")
    /\ after_queue' = Tail(after_queue)
    /\ LET has_new_keys ==
               analysis_result.present /\ analysis_result.new_keys # << >>
       IN  btn' = [analyze |-> TRUE, select |-> has_new_keys,
                   preview |-> has_new_keys, translate |-> has_new_keys,
                   view_output |-> last_output_file # 0]
    \* the run is over: the records kept of it are dropped
    /\ LET i == Head(after_queue).run
       IN  /\ w' = [w EXCEPT ![i] = [IdleWorker EXCEPT !.pc = "finished"]]
           /\ requests' = [requests EXCEPT ![i] = << >>]
           /\ reported' = [reported EXCEPT ![i] = [prompt |-> 0, completion |-> 0]]
           /\ outputs' = [outputs EXCEPT ![i] = NoOutput]
           /\ shown' = [shown EXCEPT ![i] = NothingShown]
    /\ UNCHANGED << api_key, new_file, old_file, analysis_result,
                    selected_keys, last_output_file, total_prompt_tokens,
                    total_completion_tokens, progress_var, dialog,
                    remove_obsolete >>
    /\ UNCHANGED nruns
    /\ UNCHANGED << gvars, envvars >>

\* ------------------------------------------------------------------------
\* Spec: the application
\* ------------------------------------------------------------------------
Next ==
    \/ SelectFile
    \/ ClearFile
    \/ AnalyzeFiles
    \/ ChangeUiLanguage
    \/ ShowSelectionDialog
    \/ ToggleCheckbox
    \/ ToggleRemoveObsolete
    \/ OnSelectAll
    \/ OnDeselectAll
    \/ NavigatePage
    \/ OnSaveAndClose
    \/ OnCancel
    \/ StartTranslation
    \/ \E i \in Runs : TranslateKeysBegin(i)
    \/ \E i \in Runs : TranslateKeysSelect(i)
    \/ \E i \in Runs : RequestRaises(i)
    \/ \E i \in Runs : RequestUnparseable(i)
    \/ \E i \in Runs : RequestParsed(i)
    \/ \E i \in Runs : TranslateKeysFinish(i)
    \/ \E i \in Runs : TranslateKeysExcept(i)
    \/ \E i \in Runs : TranslateKeysExceptExit(i)
    \/ \E i \in Runs : TranslateKeysFinally(i)
    \/ CbInitUi
    \/ CbProgress
    \/ CbSummary
    \/ CbError
    \/ CbEnable

Spec == Init /\ [][Next]_vars

\* ------------------------------------------------------------------------
\* SpecBatch: one translation run on the larger file, the selection fixed.
\* Init is the state right after start_translation spawned the worker; only
\* the worker and the callbacks it posts take steps.
\* ------------------------------------------------------------------------
BatchNewFile == "new2"

BatchInit ==
    /\ GuardIdle
    /\ PureIdle
    /\ set_order \in { "asc", "desc" }
    /\ api_key = "sk"
    /\ new_file = BatchNewFile
    /\ old_file \in { "none" } \cup OldFileNames
    /\ analysis_result =
          CompareJsonFiles(FileData(old_file), FileData(new_file), set_order)
    /\ selected_keys \in [Range(analysis_result.new_keys) -> BOOLEAN]
    /\ \E k \in DOMAIN selected_keys : selected_keys[k]
    /\ last_output_file = 0
    /\ total_prompt_tokens = 0
    /\ total_completion_tokens = 0
    /\ progress_var = Zero
    /\ btn = AllDisabled
    /\ dialog = NoDialog
    \* the checkbox as the user left it in the selection dialog
    /\ remove_obsolete \in BOOLEAN
    /\ w = [i \in Runs |-> IF i = 1
                            THEN [IdleWorker EXCEPT
                                    !.pc = "start",
                                    !.started_with = RunStartState]
                            ELSE IdleWorker]
    /\ nruns = 1
    /\ after_queue = << >>
    /\ requests = [i \in Runs |-> << >>]
    /\ reported = [i \in Runs |-> [prompt |-> 0, completion |-> 0]]
    /\ outputs = [i \in Runs |-> NoOutput]
    /\ shown = [i \in Runs |-> NothingShown]

BatchNext ==
    \/ \E i \in Runs : TranslateKeysBegin(i)
    \/ \E i \in Runs : TranslateKeysSelect(i)
    \/ \E i \in Runs : RequestRaises(i)
    \/ \E i \in Runs : RequestUnparseable(i)
    \/ \E i \in Runs : RequestParsed(i)
    \/ \E i \in Runs : TranslateKeysFinish(i)
    \/ \E i \in Runs : TranslateKeysExcept(i)
    \/ \E i \in Runs : TranslateKeysExceptExit(i)
    \/ \E i \in Runs : TranslateKeysFinally(i)
    \/ CbInitUi
    \/ CbProgress
    \/ CbSummary
    \/ CbError
    \/ CbEnable

SpecBatch == BatchInit /\ [][BatchNext]_vars

\* the steps of the thread of run i; a step at a provider request is the
\* request returning or raising
WorkerStep(i) ==
    \/ TranslateKeysBegin(i)
    \/ TranslateKeysSelect(i)
    \/ RequestRaises(i)
    \/ RequestUnparseable(i)
    \/ RequestParsed(i)
    \/ TranslateKeysFinish(i)
    \/ TranslateKeysExcept(i)
    \/ TranslateKeysExceptExit(i)
    \/ TranslateKeysFinally(i)

\* the Tk main loop runs the callback at the head of the queue
CallbackStep ==
    \/ CbInitUi
    \/ CbProgress
    \/ CbSummary
    \/ CbError
    \/ CbEnable

\* the thread of run i has a step to take: ENABLED WorkerStep(i)
WorkerReady(i) ==
    w[i].pc \in { "start", "select", "request", "finish", "except",
                  "except_exit", "finally" }

\* weak fairness of WorkerStep(i), WF_vars(WorkerStep(i)), written out with
\* its enabling condition
WorkerFair(i) ==
    \/ []<>(~WorkerReady(i))
    \/ []<><< WorkerStep(i) >>_vars

\* SpecBatchFair: SpecBatch where a started thread keeps being scheduled,
\* every provider request returns or raises, and the main loop keeps
\* running the callbacks posted to it
SpecBatchFair ==
    /\ SpecBatch
    /\ \A i \in Runs : WorkerFair(i)
    /\ WF_vars(CallbackStep)

\* ------------------------------------------------------------------------
\* SpecGuard: protect, then restore, over a bounded set of texts
\* ------------------------------------------------------------------------
\* one fragment per pattern category, plain text, separators and a
\* token-shaped fragment
Pieces ==
    { << "{", "x", "}" >>,
      << "[", "n", "]" >>,
      << "%", "s" >>,
      << "<", "b", ">" >>,
      << "h", "t", "t", "p", ":", "/", "/", "u" >>,
      << "@", "u" >>,
      << "#", "t" >>,
      << ":", "e", ":" >>,
      << "A", "B" >>,
      << "a" >>,
      << " " >>,
      << "%" >>,
      << "@" >>,
      << "_", "_", "P", "0", "_", "_" >> }

RECURSIVE Flatten(_)
Flatten(ss) ==
    IF ss = << >> THEN << >> ELSE Head(ss) \o Flatten(Tail(ss))

Texts ==
    { Flatten(ps) : ps \in UNION { [1..n -> Pieces] : n \in 0..MaxPieces } }

GuardInit ==
    /\ g_pc = "in"
    /\ g_text \in Texts
    /\ g_safe = << >>
    /\ g_table = << >>
    /\ g_out = << >>
    /\ PureIdle
    /\ set_order = "asc"
    /\ api_key = ""
    /\ new_file = "none"
    /\ old_file = "none"
    /\ analysis_result = NoAnalysis
    /\ selected_keys = EmptyDict
    /\ last_output_file = 0
    /\ total_prompt_tokens = 0
    /\ total_completion_tokens = 0
    /\ progress_var = Zero
    /\ btn = FreshButtons
    /\ dialog = NoDialog
    /\ remove_obsolete = TRUE
    /\ w = [i \in Runs |-> IdleWorker]
    /\ nruns = 0
    /\ after_queue = << >>
    /\ requests = [i \in Runs |-> << >>]
    /\ reported = [i \in Runs |-> [prompt |-> 0, completion |-> 0]]
    /\ outputs = [i \in Runs |-> NoOutput]
    /\ shown = [i \in Runs |-> NothingShown]

\* safe_value, placeholders = self._protect_placeholders(str(value))
GuardProtect ==
    /\ g_pc = "in"
    /\ LET r == ProtectPlaceholders(g_text)
       IN  /\ g_safe' = r.text
           /\ g_table' = r.table
    /\ g_pc' = "protected"
    /\ UNCHANGED << g_text, g_out >>
    /\ UNCHANGED << envvars, uivars, runvars >>

\* self._restore_placeholders(safe_value, placeholders)
GuardRestore ==
    /\ g_pc = "protected"
    /\ g_out' = RestorePlaceholders(g_safe, g_table)
    /\ g_pc' = "restored"
    /\ UNCHANGED << g_text, g_safe, g_table >>
    /\ UNCHANGED << envvars, uivars, runvars >>

GuardNext ==
    \/ GuardProtect
    \/ GuardRestore

SpecGuard == GuardInit /\ [][GuardNext]_vars

\* ------------------------------------------------------------------------
\* SpecCompare: _compare_json_files over every pair of maps of a bounded
\* key set
\* ------------------------------------------------------------------------
\* the application with nothing loaded and no run started
AppIdle ==
    /\ api_key = ""
    /\ new_file = "none"
    /\ old_file = "none"
    /\ analysis_result = NoAnalysis
    /\ selected_keys = EmptyDict
    /\ last_output_file = 0
    /\ total_prompt_tokens = 0
    /\ total_completion_tokens = 0
    /\ progress_var = Zero
    /\ btn = FreshButtons
    /\ dialog = NoDialog
    /\ remove_obsolete = TRUE
    /\ w = [i \in Runs |-> IdleWorker]
    /\ nruns = 0
    /\ after_queue = << >>
    /\ requests = [i \in Runs |-> << >>]
    /\ reported = [i \in Runs |-> [prompt |-> 0, completion |-> 0]]
    /\ outputs = [i \in Runs |-> NoOutput]
    /\ shown = [i \in Runs |-> NothingShown]

\* the keys of a JSON object in file order: distinct keys, any order
KeySeqs ==
    { q \in UNION { [1..n -> Range(SubSeq(AllKeys, 1, MaxKeys))] :
                      n \in 0..MaxKeys } :
        \A i, j \in 1..Len(q) : q[i] = q[j] => i = j }

\* the dict json.load returns for an object with these keys
DocOf(q, val) ==
    [i \in 1..Len(q) |-> << q[i], val >>]

CompareInit ==
    /\ GuardIdle
    /\ AppIdle
    /\ set_order \in { "asc", "desc" }
    /\ p_pc = "in"
    /\ p_in \in { [old_data |-> DocOf(o, << "o" >>),
                    new_data |-> DocOf(n, << "n" >>)] :
                      o \in KeySeqs, n \in KeySeqs }
    /\ p_out = << >>

\* analysis = self._compare_json_files(old_data, new_data)
CompareStep ==
    /\ p_pc = "in"
    /\ p_pc' = "compared"
    /\ p_out' = CompareJsonFiles(p_in.old_data, p_in.new_data, set_order)
    /\ UNCHANGED << p_in, set_order >>
    /\ UNCHANGED << gvars, uivars, runvars >>

CompareNext ==
    CompareStep

SpecCompare == CompareInit /\ [][CompareNext]_vars

\* ------------------------------------------------------------------------
\* SpecBatches: the batch list of translate_keys with the batch size of
\* the source, over lists of up to MaxSelected keys (a key is named by its
\* position in the list)
\* ------------------------------------------------------------------------
BatchesInit ==
    /\ GuardIdle
    /\ AppIdle
    /\ set_order = "asc"
    /\ p_pc = "in"
    /\ p_in \in { [to_translate |-> [i \in 1..n |-> i]] : n \in 0..MaxSelected }
    /\ p_out = << >>

\* batches = [to_translate[i: i + BATCH_SIZE] for i in range(...)]
BatchesStep ==
    /\ p_pc = "in"
    /\ p_pc' = "batched"
    /\ p_out' = MakeBatches(p_in.to_translate, BATCH_SIZE)
    /\ UNCHANGED << p_in, set_order >>
    /\ UNCHANGED << gvars, uivars, runvars >>

BatchesNext ==
    BatchesStep

SpecBatches == BatchesInit /\ [][BatchesNext]_vars

\* ------------------------------------------------------------------------
\* SpecProgress: the progress values of _process_translation_batches for
\* every number of batches up to MaxBatches; each step is followed by the
\* callback it posts, which sets progress_var
\* ------------------------------------------------------------------------
ProgressInit ==
    /\ GuardIdle
    /\ AppIdle
    /\ set_order = "asc"
    /\ p_pc = "in"
    /\ p_in \in { [num_batches |-> n] : n \in 1..MaxBatches }
    /\ p_out = << >>

\* initial_progress, per_batch_increment, current_progress and the first
\* progress_var.set
ProgressBegin ==
    /\ p_pc = "in"
    /\ p_pc' = "batches"
    /\ p_out' = [initial_progress |-> InitialProgress(p_in.num_batches),
                 per_batch_increment |-> PerBatchIncrement(p_in.num_batches),
                 current_progress |-> InitialProgress(p_in.num_batches),
                 batch_index |-> 0]
    /\ progress_var' = InitialProgress(p_in.num_batches)
    /\ UNCHANGED << api_key, new_file, old_file, analysis_result,
                    selected_keys, last_output_file, total_prompt_tokens,
                    total_completion_tokens, btn, dialog, remove_obsolete >>
    /\ UNCHANGED << p_in, set_order >>
    /\ UNCHANGED << gvars, runvars >>

\* one batch ends: current_progress += per_batch_increment, min with
\* 100.0, and _update_batch_progress sets progress_var
ProgressBatch ==
    /\ p_pc = "batches"
    /\ p_out.batch_index < p_in.num_batches
    /\ LET prog == FloatMin(FloatAdd(p_out.current_progress,
                                     p_out.per_batch_increment), Hundred)
       IN  /\ p_out' = [p_out EXCEPT !.current_progress = prog,
                                     !.batch_index = @ + 1]
           /\ progress_var' = prog
    /\ UNCHANGED << api_key, new_file, old_file, analysis_result,
                    selected_keys, last_output_file, total_prompt_tokens,
                    total_completion_tokens, btn, dialog, remove_obsolete >>
    /\ UNCHANGED << p_pc, p_in, set_order >>
    /\ UNCHANGED << gvars, runvars >>

ProgressNext ==
    \/ ProgressBegin
    \/ ProgressBatch

SpecProgress == ProgressInit /\ [][ProgressNext]_vars

\* ------------------------------------------------------------------------
\* SpecStart: one click on the translate button, from every state in which
\* the button is enabled: right after an analysis, or after a completed run
\* ------------------------------------------------------------------------
\* what start_translation may change
StartSnapshot ==
    [btn |-> btn, analysis_result |-> analysis_result,
     selected_keys |-> selected_keys, progress_var |-> progress_var,
     total_prompt_tokens |-> total_prompt_tokens,
     total_completion_tokens |-> total_completion_tokens,
     nruns |-> nruns, w |-> w, after_queue |-> after_queue]

StartInit ==
    /\ GuardIdle
    /\ set_order \in { "asc", "desc" }
    /\ api_key \in { "", " ", "sk" }
    /\ new_file \in { "new1", "new2" }
    /\ old_file \in { "none", "old1", "old2" }
    /\ analysis_result =
          CompareJsonFiles(FileData(old_file), FileData(new_file), set_order)
    /\ selected_keys \in [Range(analysis_result.new_keys) -> BOOLEAN]
    /\ last_output_file \in { 0, 1 }
    /\ last_output_file = 1 => analysis_result.new_keys # << >>
    /\ total_prompt_tokens = 0
    /\ total_completion_tokens = 0
    /\ progress_var = IF last_output_file = 1 THEN Hundred ELSE Zero
    /\ btn = [analyze |-> TRUE, select |-> TRUE, preview |-> TRUE,
              translate |-> TRUE, view_output |-> last_output_file = 1]
    /\ dialog = NoDialog
    /\ remove_obsolete = TRUE
    /\ w = [i \in Runs |-> IdleWorker]
    /\ nruns = 0
    /\ after_queue = << >>
    /\ requests = [i \in Runs |-> << >>]
    /\ reported = [i \in Runs |-> [prompt |-> 0, completion |-> 0]]
    /\ outputs = [i \in Runs |-> NoOutput]
    /\ shown = [i \in Runs |-> NothingShown]
    /\ p_pc = "in"
    /\ p_in = StartSnapshot
    /\ p_out = << >>

\* start_translation returns early, or the user answers no to askyesno
StartRejected ==
    /\ p_pc = "in"
    /\ btn.translate
    /\ \/ /\ StartRejection # "none"
          /\ p_out' = StartRejection
       \/ /\ StartRejection = "none"
          /\ p_out' = "declined"
    /\ p_pc' = "returned"
    /\ UNCHANGED << p_in, set_order >>
    /\ UNCHANGED << gvars, uivars, runvars >>

\* start_translation goes through and the user answers yes
StartConfirmed ==
    /\ p_pc = "in"
    /\ btn.translate
    /\ StartRejection = "none"
    /\ StartWorker
    /\ p_pc' = "returned"
    /\ p_out' = "started"
    /\ UNCHANGED << p_in, set_order >>
    /\ UNCHANGED gvars

StartNext ==
    \/ StartRejected
    \/ StartConfirmed

SpecStart == StartInit /\ [][StartNext]_vars

\* ------------------------------------------------------------------------
\* SpecAnalyze: one click on the analyze button, before any analysis or
\* after one, with files picked that can or cannot be read
\* ------------------------------------------------------------------------
AnalyzeNewFiles == { "new1", "new4", "missing", "garbled", "list" }

AnalyzeOldFiles == { "none", "old1", "missing", "garbled", "list" }

\* what analyze_files may change
AnalyzeSnapshot ==
    [analysis_result |-> analysis_result, selected_keys |-> selected_keys,
     btn |-> btn, progress_var |-> progress_var]

AnalyzeInit ==
    /\ GuardIdle
    /\ set_order \in { "asc", "desc" }
    /\ api_key = "sk"
    /\ new_file \in AnalyzeNewFiles
    /\ old_file \in AnalyzeOldFiles
    \* the state an earlier analysis of readable files left, if there was one
    /\ \/ /\ analysis_result = NoAnalysis
          /\ selected_keys = EmptyDict
          /\ btn = FreshButtons
       \/ /\ \E o \in { "none", "old1" } :
                analysis_result =
                    CompareJsonFiles(FileData(o), FileData("new1"), set_order)
          /\ selected_keys \in [Range(analysis_result.new_keys) -> BOOLEAN]
          /\ btn = [analyze |-> TRUE, select |-> TRUE, preview |-> TRUE,
                    translate |-> TRUE, view_output |-> FALSE]
    /\ last_output_file = 0
    /\ total_prompt_tokens = 0
    /\ total_completion_tokens = 0
    /\ progress_var = Zero
    /\ dialog = NoDialog
    /\ remove_obsolete = TRUE
    /\ w = [i \in Runs |-> IdleWorker]
    /\ nruns = 0
    /\ after_queue = << >>
    /\ requests = [i \in Runs |-> << >>]
    /\ reported = [i \in Runs |-> [prompt |-> 0, completion |-> 0]]
    /\ outputs = [i \in Runs |-> NoOutput]
    /\ shown = [i \in Runs |-> NothingShown]
    /\ p_pc = "in"
    /\ p_in = AnalyzeSnapshot
    /\ p_out = << >>

\* analyze_files runs to its end
AnalyzeCall ==
    /\ p_pc = "in"
    /\ btn.analyze
    /\ new_file # "none"
    /\ AnalyzeEffects
    /\ p_pc' = "returned"
    /\ p_out' = AnalyzeOutcome
    /\ UNCHANGED << api_key, new_file, old_file, last_output_file,
                    total_prompt_tokens, total_completion_tokens, dialog,
                    remove_obsolete >>
    /\ UNCHANGED << p_in, set_order >>
    /\ UNCHANGED << gvars, runvars >>

AnalyzeNext ==
    AnalyzeCall

SpecAnalyze == AnalyzeInit /\ [][AnalyzeNext]_vars

\* ------------------------------------------------------------------------
\* SpecReanalyze: one translation run during which the user changes the UI
\* language, picks other files and analyses again. Init is the state right
\* after start_translation spawned the worker.
\* ------------------------------------------------------------------------
ReanalyzeNewFiles == { "new1", "new3" }

ReanalyzeInit ==
    /\ GuardIdle
    /\ PureIdle
    /\ set_order \in { "asc", "desc" }
    /\ api_key = "sk"
    /\ new_file = "new1"
    /\ old_file \in { "none" } \cup OldFileNames
    /\ analysis_result =
          CompareJsonFiles(FileData(old_file), FileData(new_file), set_order)
    /\ selected_keys \in [Range(analysis_result.new_keys) -> BOOLEAN]
    /\ \E k \in DOMAIN selected_keys : selected_keys[k]
    /\ last_output_file = 0
    /\ total_prompt_tokens = 0
    /\ total_completion_tokens = 0
    /\ progress_var = Zero
    /\ btn = AllDisabled
    /\ dialog = NoDialog
    /\ remove_obsolete = TRUE
    /\ w = [i \in Runs |-> IF i = 1
                            THEN [IdleWorker EXCEPT
                                    !.pc = "start",
                                    !.started_with = RunStartState]
                            ELSE IdleWorker]
    /\ nruns = 1
    /\ after_queue = << >>
    /\ requests = [i \in Runs |-> << >>]
    /\ reported = [i \in Runs |-> [prompt |-> 0, completion |-> 0]]
    /\ outputs = [i \in Runs |-> NoOutput]
    /\ shown = [i \in Runs |-> NothingShown]

\* the file buttons stay enabled during a run
ReanalyzeSelectFile ==
    /\ SomeRunInFlight
    /\ SelectFileFrom(ReanalyzeNewFiles, OldFileNames)

ReanalyzeClearFile ==
    /\ SomeRunInFlight
    /\ ClearOldFile

ReanalyzeNext ==
    \/ ReanalyzeSelectFile
    \/ ReanalyzeClearFile
    \/ SomeRunInFlight /\ ChangeUiLanguage
    \/ SomeRunInFlight /\ AnalyzeFiles
    \/ BatchNext

SpecReanalyze == ReanalyzeInit /\ [][ReanalyzeNext]_vars

\* ------------------------------------------------------------------------
\* SpecClean: one provider response through _try_request and json.loads.
\* A response is a text over the characters of a fence, a language tag, a
\* line break, a blank and the JSON object {}.
\* ------------------------------------------------------------------------
MaxParts == 6

\* the fence of three grave accents; the grave accent is written ' here
Fence == << "'", "'", "'" >>

JsonBody == << "{", "}" >>

ResponseParts ==
    { Fence, << "j" >>, << "\n" >>, << " " >>, JsonBody }

Responses ==
    { Flatten(ps) : ps \in UNION { [1..n -> ResponseParts] : n \in 0..MaxParts } }

\* str.startswith
StartsWith(s, p) ==
    OccursAt(s, p, 1)

\* str.strip(): the text without the white space at its two ends
Strip(s) ==
    LET ns == { i \in 1..Len(s) : ~IsSpace(s[i]) }
    IN  IF ns = {} THEN << >>
        ELSE Slice(s, CHOOSE i \in ns : \A k \in ns : i <= k,
                      CHOOSE j \in ns : \A k \in ns : k <= j)

RECURSIVE SplitFrom(_, _)
\* the lines of s from position i on
SplitFrom(s, i) ==
    IF i > Len(s) THEN << >>
    ELSE LET j == NextIndexOf(s, "\n", i - 1)
         IN  IF j = 0 THEN << Slice(s, i, Len(s)) >>
             ELSE << Slice(s, i, j - 1) >> \o SplitFrom(s, j + 1)

\* str.splitlines(): no last empty line after a final line break
SplitLines(s) ==
    SplitFrom(s, 1)

RECURSIVE JoinLines(_)
\* "\n".join(lines)
JoinLines(lines) ==
    IF lines = << >> THEN << >>
    ELSE IF Len(lines) = 1 THEN lines[1]
    ELSE lines[1] \o << "\n" >> \o JoinLines(Tail(lines))

\* _clean_json_response(content)
CleanJsonResponse(content) ==
    IF StartsWith(content, Fence)
    THEN LET lines == SplitLines(content)
             rest  == IF lines # << >> /\ StartsWith(lines[1], Fence)
                      THEN Tail(lines) ELSE lines
             body  == IF rest # << >> /\ StartsWith(rest[Len(rest)], Fence)
                      THEN SubSeq(rest, 1, Len(rest) - 1) ELSE rest
         IN  Strip(JoinLines(body))
    ELSE content

\* json.loads(raw) on a text of these characters: the object {} with white
\* space around and inside it, or a JSONDecodeError
JsonLoads(raw) ==
    LET t == Strip(raw)
    IN  IF /\ Len(t) >= 2
           /\ t[1] = "{"
           /\ t[Len(t)] = "}"
           /\ \A i \in 2..(Len(t) - 1) : IsSpace(t[i])
        THEN "object"
        ELSE "error"

CleanInit ==
    /\ GuardIdle
    /\ AppIdle
    /\ set_order = "asc"
    /\ p_pc = "in"
    /\ p_in \in Responses
    /\ p_out = [content |-> << >>, cleaned |-> << >>, parsed |-> "none"]

\* content = response.choices[0].message.content.strip()
CleanStrip ==
    /\ p_pc = "in"
    /\ p_pc' = "content"
    /\ p_out' = [p_out EXCEPT !.content = Strip(p_in)]
    /\ UNCHANGED << p_in, set_order >>
    /\ UNCHANGED << gvars, uivars, runvars >>

\* return self._clean_json_response(content)
CleanCall ==
    /\ p_pc = "content"
    /\ p_pc' = "cleaned"
    /\ p_out' = [p_out EXCEPT !.cleaned = CleanJsonResponse(p_out.content)]
    /\ UNCHANGED << p_in, set_order >>
    /\ UNCHANGED << gvars, uivars, runvars >>

\* parsed = json.loads(raw)
CleanParse ==
    /\ p_pc = "cleaned"
    /\ p_pc' = "parsed"
    /\ p_out' = [p_out EXCEPT !.parsed = JsonLoads(p_out.cleaned)]
    /\ UNCHANGED << p_in, set_order >>
    /\ UNCHANGED << gvars, uivars, runvars >>

CleanNext ==
    \/ CleanStrip
    \/ CleanCall
    \/ CleanParse

SpecClean == CleanInit /\ [][CleanNext]_vars

\* ------------------------------------------------------------------------
\* Claims
\* ------------------------------------------------------------------------
\* the requests of run i for batch b, in the order they were issued
RequestsOf(i, b) ==
    SelectSeq(requests[i], LAMBDA r : r.batch = b)

\* the batches run i has issued a request for
BatchesOf(i) ==
    { requests[i][j].batch : j \in 1..Len(requests[i]) }

\* run i is past batch b
BatchOver(i, b) ==
    ~(w[i].pc = "request" /\ w[i].bi = b)

\* the worker of run i is between its start and its second read of the
\* selection
RunActive(i) ==
    w[i].pc \in { "start", "select", "request", "finish" }

\* C1: the mapping written by a completed run has exactly the keys of the
\* new file, each key once, in the new file's key order
C1_OutputHasKeysOfNewFile ==
    \A i \in Runs :
        outputs[i].written => KeyList(outputs[i].doc) = outputs[i].new_order

\* C2: at most one translation run is in flight at any time
C2_AtMostOneRunInFlight ==
    InFlightCount <= 1

\* C3: restore(protect(text)) = text for every text that contains no
\* token-shaped substring
C3_RestoreInvertsProtect ==
    (g_pc = "restored" /\ ~HasTokenShape(g_text)) => g_out = g_text

\* C4: when the summary of a run is shown, the prompt and completion token
\* counters equal the sums of the counts the provider reported for the
\* requests of the run, and the cost shown is computed from those sums
C4_UsageEqualsProviderCounts ==
    \A i \in Runs :
        shown[i].kind = "summary" =>
            /\ shown[i].prompt = reported[i].prompt
            /\ shown[i].completion = reported[i].completion
            /\ shown[i].cost = TotalCost(reported[i].prompt,
                                         reported[i].completion)

\* C5: while a worker is between its start and its second read of the
\* selection, no step changes the selection flags
C5_SelectionReadOnlyDuringRun ==
    [][(\E i \in Runs : RunActive(i)) => selected_keys' = selected_keys]_vars

\* C6: a key for which the parsed response lacks a non-empty string gets its
\* original new-file value in the result, and every key of a finished batch
\* is present in the result
C6_FallbackIsSourceValue ==
    \A i \in Runs :
        /\ \A k \in w[i].lacked :
              /\ k \in DOMAIN w[i].result
              /\ w[i].result[k] = Value(analysis_result.new_data, k)
        /\ \A b \in 1..Len(w[i].batches) :
              (w[i].pc = "finish" \/ (w[i].pc = "request" /\ b < w[i].bi))
                  => Range(w[i].batches[b]) \subseteq DOMAIN w[i].result

\* C7: a batch gets a second request exactly when its first response failed
\* to parse, the second request carries the payload of the first, and no
\* batch gets more than 2 requests
C7_RetryOnceOnParseFailure ==
    \A i \in Runs : \A b \in BatchesOf(i) :
        LET reqs == RequestsOf(i, b)
        IN  /\ Len(reqs) <= 2
            /\ Len(reqs) = 2 =>
                  /\ reqs[1].resp = "unparseable"
                  /\ reqs[2].payload = reqs[1].payload
            /\ (reqs[1].resp = "unparseable" /\ BatchOver(i, b))
                  => Len(reqs) = 2

\* a batch was retried after an unparseable first response and the run
\* went on
C7_Witness ==
    \E i \in Runs : \E b \in BatchesOf(i) :
        /\ Len(RequestsOf(i, b)) = 2
        /\ RequestsOf(i, b)[1].resp = "unparseable"
        /\ RequestsOf(i, b)[2].resp = "object"
        /\ BatchOver(i, b)

\* C8: when a provider request raises, the batch it belongs to has been
\* given two requests by the time the batch is given up
C8_RaisedRequestRetried ==
    \A i \in Runs :
        (requests[i] # << >>
            /\ requests[i][Len(requests[i])].resp = "raise")
        => Len(RequestsOf(i, requests[i][Len(requests[i])].batch)) = 2

\* C9: when both attempts of a batch returned unparseable text, every key
\* of the batch has its original new-file value in the result and the
\* worker has gone on to the next batch or to the end of the run
C9_UnparseableBatchFallsBack ==
    \A i \in Runs : \A b \in 1..Len(w[i].batches) :
        (/\ Len(RequestsOf(i, b)) = 2
         /\ RequestsOf(i, b)[2].resp = "unparseable")
        => /\ w[i].pc \in { "request", "finish", "finally" }
           /\ w[i].pc = "request" => w[i].bi = b + 1
           /\ \A k \in Range(w[i].batches[b]) :
                 /\ k \in DOMAIN w[i].result
                 /\ w[i].result[k] = Value(analysis_result.new_data, k)

\* C10: once the error callback of a failed run has run, the error has been
\* shown with the cause of the failure
C10_ErrorShownWithCause ==
    \A i \in Runs :
        shown[i].kind \in { "error", "name_error" } =>
            /\ shown[i].kind = "error"
            /\ shown[i].cause = w[i].cause

\* C11: while a run is in flight the progress value shown never decreases
\* from one step to the next, and the step that shows the summary of a
\* completed run leaves the progress at exactly 100
C11_ProgressNonDecreasing ==
    [][/\ (SomeRunInFlight /\ SomeRunInFlight')
            => FloatLeq(progress_var, progress_var')
       /\ (\E i \in Runs : shown[i].kind # "summary"
                           /\ shown'[i].kind = "summary")
            => progress_var' = Hundred]_vars

\* C12: compare returns new_keys = keys(new) - keys(old), obsolete_keys =
\* keys(old) - keys(new), kept_keys = keys(old) intersect keys(new), each key
\* once; the three are pairwise disjoint and their union is keys(old) union
\* keys(new)
C12_ComparePartitionsKeys ==
    p_pc = "compared" =>
        LET old_keys == KeySet(p_in.old_data)
            new_keys == KeySet(p_in.new_data)
            N == Range(p_out.new_keys)
            O == Range(p_out.obsolete_keys)
            K == Range(p_out.kept_keys)
        IN  /\ N = new_keys \ old_keys
            /\ O = old_keys \ new_keys
            /\ K = old_keys \cap new_keys
            /\ Len(p_out.new_keys) = Cardinality(N)
            /\ Len(p_out.obsolete_keys) = Cardinality(O)
            /\ Len(p_out.kept_keys) = Cardinality(K)
            /\ N \cap O = {} /\ N \cap K = {} /\ O \cap K = {}
            /\ N \cup O \cup K = old_keys \cup new_keys

\* a comparison with a new key, an obsolete key and a kept key
C12_Witness ==
    /\ p_pc = "compared"
    /\ p_out.new_keys # << >>
    /\ p_out.obsolete_keys # << >>
    /\ p_out.kept_keys # << >>

\* the sizes of the batches of a batch list
BatchSizes(batches) ==
    [j \in 1..Len(batches) |-> Len(batches[j])]

\* C13: with the batch size 60 the batches concatenated in order are the
\* input list, no batch has more than 60 keys, none is empty, only the last
\* may have fewer than 60, and 130 keys give the sizes 60, 60, 10
C13_BatchesPartitionInput ==
    p_pc = "batched" =>
        /\ Flatten(p_out) = p_in.to_translate
        /\ \A j \in 1..Len(p_out) :
              /\ Len(p_out[j]) >= 1
              /\ Len(p_out[j]) <= 60
              /\ j < Len(p_out) => Len(p_out[j]) = 60
        /\ Len(p_in.to_translate) = 130
              => BatchSizes(p_out) = << 60, 60, 10 >>

\* 130 keys were cut into three batches, the last one shorter
C13_Witness ==
    /\ p_pc = "batched"
    /\ Len(p_in.to_translate) = 130
    /\ Len(p_out) = 3
    /\ Len(p_out[3]) = 10

\* no new key is selected for translation
NoKeySelected ==
    SelectSeqBy(analysis_result.new_keys, selected_keys, TRUE) = << >>

\* C14: a start_translation called with an empty API key or with no new key
\* selected has started no worker and has left the buttons, the analysis
\* result, the selection, the progress and the usage counters as they were
C14_RejectedStartChangesNothing ==
    (p_pc = "returned" /\ (ApiKeyBlank(api_key) \/ NoKeySelected)) =>
        /\ p_out # "started"
        /\ StartSnapshot = p_in

\* after a completed run, a start was rejected because no key was selected
C14_Witness ==
    /\ p_pc = "returned"
    /\ p_out = "no_keys_selected"
    /\ progress_var = Hundred
    /\ btn.translate

\* C15: the step that ends a failed run (its button re-enable callback)
\* leaves the analysis result and the selection the run was started with,
\* the translate button enabled, and a start_translation that is accepted
C15_FailedRunBackToAnalyzed ==
    [][\A i \in Runs :
          (w[i].pc = "ended" /\ w[i].cause # "none" /\ w'[i].pc = "finished")
          => /\ analysis_result' = w[i].started_with.analysis_result
             /\ selected_keys' = w[i].started_with.selected_keys
             /\ btn'.translate
             /\ StartRejection' = "none"]_vars

\* the keys run i has sent to the provider so far
SentKeys(i) ==
    UNION { DOMAIN requests[i][j].payload : j \in 1..Len(requests[i]) }

\* C16: a new key that was excluded from translation when the run was
\* started is in no request of the run, and in the file the run writes it
\* has its value of the new file
C16_ExcludedKeyKeepsNewValue ==
    \A i \in Runs :
        w[i].started_with # << >> =>
            LET start == w[i].started_with
            IN  \A k \in Range(start.analysis_result.new_keys) :
                    ~SelGet(start.selected_keys, k) =>
                        /\ k \notin SentKeys(i)
                        /\ outputs[i].written =>
                              /\ k \in KeySet(outputs[i].doc)
                              /\ Value(outputs[i].doc, k) =
                                    Value(start.analysis_result.new_data, k)

\* C17: a key that was kept (in both files) when the run was started is in
\* no request of the run, and in the file the run writes it has the old
\* file's value
C17_KeptKeyKeepsOldValue ==
    \A i \in Runs :
        w[i].started_with # << >> =>
            LET start == w[i].started_with.analysis_result
            IN  \A k \in Range(start.kept_keys) :
                    /\ k \notin SentKeys(i)
                    /\ outputs[i].written =>
                          /\ k \in KeySet(outputs[i].doc)
                          /\ Value(outputs[i].doc, k) = Value(start.old_data, k)

\* C18: the requests of a run are issued in batch order, starting with
\* batch 1 and never skipping a batch, and when a request of batch b has
\* been issued every key of the batches before b is stored in the result
C18_RequestsInBatchOrder ==
    \A i \in Runs :
        LET log == requests[i]
        IN  /\ log # << >> => log[1].batch = 1
            /\ \A j \in 1..(Len(log) - 1) :
                  log[j + 1].batch \in { log[j].batch, log[j].batch + 1 }
            /\ w[i].batches # << >> =>
                  \A j \in 1..Len(log) : \A b \in 1..(log[j].batch - 1) :
                      Range(w[i].batches[b]) \subseteq DOMAIN w[i].result

\* a request of the second batch was issued
C18_Witness ==
    \E i \in Runs :
        /\ w[i].batches # << >>
        /\ \E j \in 1..Len(requests[i]) : requests[i][j].batch = 2

\* the new file, or the old file if one is set, cannot be read or parsed
\* into a JSON object
CannotReadOrParse ==
    \/ FileKind(new_file) # "object"
    \/ /\ old_file # "none"
       /\ FileKind(old_file) # "object"

\* C19: when analyze_files cannot read or parse the new file or the old
\* file, it ends with the analysis error shown and with analysis_result and
\* selected_keys as they were before the call.
C19_FailedAnalyzeCommitsNothing ==
    (p_pc = "returned" /\ CannotReadOrParse) =>
        /\ p_out = "analysis_error"
        /\ analysis_result = p_in.analysis_result
        /\ selected_keys = p_in.selected_keys

\* an analysis of readable files was on screen with one key deselected, the
\* old file picked next was not JSON, and analyze_files has returned
C19_Witness ==
    /\ p_pc = "returned"
    /\ p_out = "analysis_error"
    /\ FileKind(new_file) = "object"
    /\ FileKind(old_file) = "invalid_json"
    /\ p_in.analysis_result.present
    /\ \E k \in DOMAIN p_in.selected_keys : ~p_in.selected_keys[k]

\* the float nearest to the value of the formula after batch i of n,
\* 100/(2n) + i * ((100 - 100/(2n)) / n) = 50 * (n + i * (2n - 1)) / n^2
FormulaProgress(n, i) ==
    FloatDivNat(FromNat(50 * (n + i * (2 * n - 1))), n * n)

\* C20: with n batches the progress reported before any batch is 100/(2n),
\* after batch i it is 100/(2n) + i * ((100 - 100/(2n)) / n), never above
\* 100, and after batch n it is 100.
C20_ProgressFollowsFormula ==
    p_pc = "batches" =>
        /\ progress_var = FormulaProgress(p_in.num_batches, p_out.batch_index)
        /\ FloatLeq(progress_var, Hundred)
        /\ p_out.batch_index = p_in.num_batches => progress_var = Hundred

\* the last batch of a run has ended and the progress reported is not 100
C20_LastBatchBelowHundred ==
    /\ p_pc = "batches"
    /\ p_out.batch_index = p_in.num_batches
    /\ progress_var # Hundred

\* the callback of this kind of run i is at position p of the queue
QueuedAt(kind, i, p) ==
    /\ after_queue[p].kind = kind
    /\ after_queue[p].run = i

\* C21: every started run ends, in completion or in failure, if each of its
\* provider requests returns or raises; its button re-enable callback is
\* queued behind its summary or error callback, and once it has run the
\* translate button is enabled again.
C21_RunEndsAndReenables ==
    /\ \A i \in Runs :
          (w[i].pc = "start") ~> (w[i].pc = "finished" /\ btn.translate)
    /\ [](\A i \in Runs : \A p \in 1..Len(after_queue) :
            QueuedAt("enable", i, p) =>
                \/ shown[i].kind # "none"
                \/ \E q \in 1..(p - 1) :
                        QueuedAt("summary", i, q) \/ QueuedAt("error", i, q))

\* a run that failed at a provider request has ended and its re-enable
\* callback has enabled the translate button
C21_Witness ==
    /\ w[1].pc = "finished"
    /\ btn.translate
    /\ last_output_file = 0
    /\ nruns = 1

\* the interactive state a run changes: the progress value, the button
\* states and what the results text shows of the run
Interactive == << progress_var, btn, shown >>

\* C22: a step of the worker thread leaves the progress value, the results
\* text and the button states alone and at most appends one callback of its
\* run at the end of the queue; every step that changes them runs the
\* callback at the head of the queue, so callbacks run in posting order.
C22_WorkerOnlyPostsCallbacks ==
    [][/\ \A i \in Runs :
            (WorkerReady(i) /\ w'[i] # w[i]) =>
                /\ Interactive' = Interactive
                /\ \/ after_queue' = after_queue
                   \/ /\ Len(after_queue') = Len(after_queue) + 1
                      /\ SubSeq(after_queue', 1, Len(after_queue)) = after_queue
                      /\ after_queue'[Len(after_queue')].run = i
       /\ (Interactive' # Interactive) =>
            /\ after_queue # << >>
            /\ after_queue' = Tail(after_queue)
            /\ \A i \in Runs : WorkerReady(i) => w'[i] = w[i]
      ]_vars

\* the worker has saved the output while two of its callbacks are still
\* queued and an earlier one has already moved the progress value
C22_Witness ==
    /\ w[1].pc = "finally"
    /\ Len(after_queue) >= 2
    /\ progress_var # Zero

\* C23: right after an analyze_files call that ended without an error and
\* found at least one new key, selected_keys has exactly the new keys as
\* its keys and maps each of them to true, whatever it held before.
C23_AnalyzeSelectsEveryNewKey ==
    (/\ p_pc = "returned"
     /\ p_out = "analysed"
     /\ analysis_result.new_keys # << >>) =>
        /\ DOMAIN selected_keys = Range(analysis_result.new_keys)
        /\ \A k \in DOMAIN selected_keys : selected_keys[k]

\* a key that was deselected after an earlier analysis is new again in an
\* analysis that has just ended without an error
C23_Witness ==
    /\ p_pc = "returned"
    /\ p_out = "analysed"
    /\ \E k \in DOMAIN p_in.selected_keys :
          /\ ~p_in.selected_keys[k]
          /\ k \in Range(analysis_result.new_keys)
    /\ DOMAIN p_in.selected_keys # DOMAIN selected_keys

\* the entries of the table in the order f, a permutation of their positions
Reordered(table, f) ==
    [k \in DOMAIN table |-> table[f[k]]]

\* C24: restoring the guarded text with the entries of the table produced
\* by protect taken in any order gives the text that restoring in the
\* order of the table gives.
C24_RestoreOrderIndependent ==
    g_pc = "restored" =>
        \A f \in Permutations(DOMAIN g_table) :
            RestorePlaceholders(g_safe, Reordered(g_table, f)) = g_out

\* C25: every value stored in the table by protect is a substring of the
\* original text, and no token inserted earlier in the call occurs in it
\* (a later pattern never matches a token of an earlier one).
C25_PatternsMatchOriginalOnly ==
    (g_pc # "in" /\ ~HasTokenShape(g_text)) =>
        \A k \in DOMAIN g_table :
            /\ Contains(g_text, g_table[k][2])
            /\ \A j \in 1..(k - 1) : ~Contains(g_table[k][2], g_table[j][1])

\* the number of positions of s where p occurs
Occurrences(s, p) ==
    Cardinality({ i \in 1..Len(s) : OccursAt(s, p, i) })

\* C26: every token of the table produced by protect occurs exactly once
\* in the guarded text, also when the same substring matches a pattern at
\* several positions, and the tokens of one call are numbered 0, 1, 2, ...
\* in the order of the table.
C26_OneTokenPerOccurrence ==
    (g_pc # "in" /\ ~HasTokenShape(g_text)) =>
        \A k \in DOMAIN g_table :
            /\ g_table[k][1] = Token(k - 1)
            /\ Occurrences(g_safe, g_table[k][1]) = 1

\* the response is the object {} between an opening fence, with or without
\* a language tag, and a closing fence, each on the line of the object or on
\* a line of its own
FencedObject(raw) ==
    \E tag \in { << >>, << "j" >> } :
        \E s1, s2 \in { << >>, << " " >>, << "\n" >> } :
            /\ tag # << >> => s1 # << >>
            /\ raw = Fence \o tag \o s1 \o JsonBody \o s2 \o Fence

\* C27: a response that is a JSON object between fences is cleaned to the
\* bare JSON text and parses to the object, whether the fences are on
\* lines of their own or on the line of the JSON; a response without a
\* fence is passed on as it is.
C27_FencesStripped ==
    p_pc = "parsed" =>
        /\ FencedObject(p_in) =>
              /\ p_out.cleaned = JsonBody
              /\ p_out.parsed = "object"
        /\ ~Contains(p_in, Fence) => p_out.cleaned = p_out.content

\* the batches for which run i has made a request
RequestedBatches(i) ==
    { requests[i][j].batch : j \in 1..Len(requests[i]) }

\* C28: the output of a run is written only when every batch of the run
\* has completed and the keys left out of the selection have been merged;
\* a run that fails in a batch writes no output, leaves last_output_file
\* as it was and so drops the translations of its completed batches.
C28_OutputOnlyAfterAllBatches ==
    /\ [](\A i \in Runs :
            outputs[i].written =>
                /\ w[i].cause = "none"
                /\ \A j \in 1..Len(requests[i]) : requests[i][j].resp # "raise"
                /\ RequestedBatches(i) =
                      1..Len(MakeBatches(SelectSeqBy(analysis_result.new_keys,
                                                     selected_keys, TRUE),
                                         BatchSize))
                /\ Range(analysis_result.new_keys) \subseteq
                      KeySet(outputs[i].doc))
    /\ [][\A i \in Runs :
            w'[i].cause # "none" =>
                /\ ~outputs'[i].written
                /\ last_output_file' = last_output_file]_vars

\* the first batch of a run completed, a request of its second batch
\* raised, and the run has ended without an output
C28_Witness ==
    /\ w[1].pc = "ended"
    /\ w[1].cause = "provider"
    /\ \E j \in 1..Len(requests[1]) :
          requests[1][j].batch = 2 /\ requests[1][j].resp = "raise"
    /\ ~outputs[1].written
    /\ last_output_file = 0

\* C29: when a response of a batch parsed as JSON that is not an object,
\* that response is the last one of the batch (no retry follows it), the
\* worker has left the batch, and every key of the batch has its original
\* new-file value in the result.
C29_NonObjectEndsAttempts ==
    \A i \in Runs : \A b \in 1..Len(w[i].batches) :
        (\E j \in 1..Len(RequestsOf(i, b)) :
              RequestsOf(i, b)[j].resp = "nonobject")
        => /\ RequestsOf(i, b)[Len(RequestsOf(i, b))].resp = "nonobject"
           /\ \A j \in 1..(Len(RequestsOf(i, b)) - 1) :
                 RequestsOf(i, b)[j].resp = "unparseable"
           /\ BatchOver(i, b)
           /\ \A k \in Range(w[i].batches[b]) :
                 /\ k \in DOMAIN w[i].result
                 /\ w[i].result[k] = Value(analysis_result.new_data, k)

====
